---- MODULE Spec2Model ----
(***************************************************************************)
(* The undo/redo engines of src/mptrack/Undo.cpp (OpenMPT): CPatternUndo,  *)
(* CSampleUndo and CInstrumentUndo.  Each engine owns an undo and a redo   *)
(* buffer; the three engines share no state, so a behaviour of this model  *)
(* exercises one engine, chosen by Init (variable engine).                 *)
(***************************************************************************)
EXTENDS Integers, Sequences, FiniteSets, TLC

\* ------------------------------------------------------------------ bounds

\* Undo.cpp:67,298,690 (its value, set in Undo.h, is scaled down here).
MAX_UNDO_LEVEL == 2
\* Successful PrepareUndo calls in one behaviour: enough to fill a stack to
\* its cap and evict from it.
MaxPrepares == MAX_UNDO_LEVEL + 1
\* Document mutations the editor makes in one behaviour.
MaxEdits == 1
MaxInsEdits == 2

\* ------------------------------------------------------------ declarations

VARIABLES
    engine,          \* which engine this behaviour exercises: "pat", "smp", "ins"
    scope,           \* what the PrepareUndo calls of this behaviour capture
    prepares,        \* number of successful PrepareUndo calls so far
    edits,           \* number of document mutations the editor has made so far
    last,            \* the last call made and what it returned
    scen,            \* bookkeeping of the undo/redo duality scenarios
    PatDoc,          \* CSoundFile: Patterns, GetNumChannels(), ChnSettings
    PatUndoBuffer,   \* CPatternUndo::UndoBuffer
    PatRedoBuffer,   \* CPatternUndo::RedoBuffer
    SmpSamples,      \* CSoundFile::Samples: 1..MAX_SAMPLES-1 -> ModSample
    SmpUndoBuffer,   \* CSampleUndo::UndoBuffer
    SmpRedoBuffer,   \* CSampleUndo::RedoBuffer
    SmpBudget,       \* TrackerSettings m_SampleUndoBufferSize, in bytes
    SmpLedger,       \* what the last sample call did with the payload buffers
    InsInstruments,  \* CSoundFile::Instruments: 1..MAX_INSTRUMENTS-1 -> record or nullptr
    InsUndoBuffer,   \* CInstrumentUndo::UndoBuffer
    InsRedoBuffer    \* CInstrumentUndo::RedoBuffer

vars == <<engine, scope, prepares, edits, last, scen,
          PatDoc, PatUndoBuffer, PatRedoBuffer,
          SmpSamples, SmpUndoBuffer, SmpRedoBuffer, SmpBudget, SmpLedger,
          InsInstruments, InsUndoBuffer, InsRedoBuffer>>

patVars == <<PatDoc, PatUndoBuffer, PatRedoBuffer>>

smpVars == <<SmpSamples, SmpUndoBuffer, SmpRedoBuffer, SmpBudget, SmpLedger>>

insVars == <<InsInstruments, InsUndoBuffer, InsRedoBuffer>>

\* ----------------------------------------------------------------- helpers

Min(a, b) == IF a < b THEN a ELSE b

\* std::vector::resize(n) called only to grow: pads with empty stacks.
GrowTo(buffer, n) ==
    IF n > Len(buffer) THEN buffer \o [i \in 1..(n - Len(buffer)) |-> <<>>] ELSE buffer

\* The stack of entity id (1-based); an entity the buffer has no slot for has none.
StackOf(buffer, id) == IF id >= 1 /\ id <= Len(buffer) THEN buffer[id] ELSE <<>>

\* std::vector::erase(begin, begin + n)
DropFirst(s, n) == SubSeq(s, n + 1, Len(s))

\* std::vector::pop_back()
PopBack(s) == SubSeq(s, 1, Len(s) - 1)

NoCall == [op |-> "none", id |-> 0, ok |-> FALSE, why |-> "none"]

Call(op, id, ok, why) == [op |-> op, id |-> id, ok |-> ok, why |-> why]

NoScen == [st |-> "idle", id |-> 0, snaps |-> <<>>, k |-> 0, expect |-> <<>>]

Scen(st, id, expect) == [st |-> st, id |-> id, snaps |-> <<>>, k |-> 0, expect |-> expect]

\* ======================================================================
\* Pattern undo (CPatternUndo)
\* ======================================================================

PATTERNINDEX_INVALID == -1

\* The pattern the document starts with: rows of cells, a cell being a
\* ModCommand (0 is the empty one).  No pattern grows beyond it.
PatInitialGrid == <<<<0, 0>>, <<0, 0>>>>
MaxRows == Len(PatInitialGrid)
MaxChn == Len(PatInitialGrid[1])

\* The pattern indices in use (0-based); NumPats is the first index behind them.
PatIds == {0}
NumPats == Cardinality(PatIds)

\* A pattern slot without a pattern.
NoPattern == <<>>

\* CPatternContainer::IsValidPat
IsValidPat(pats, pattern) == pattern \in PatIds /\ pats[pattern] # NoPattern

\* CPattern::GetNumRows
GetNumRows(grid) == Len(grid)

BlankRow(nch) == [c \in 1..nch |-> 0]

\* CPatternContainer::Insert(pattern, rows): a pattern of empty rows.  An index
\* behind the indices in use is more than the format allows: Insert fails.
InsertPattern(pats, nch, pattern, rows) ==
    [pats EXCEPT ![pattern] = [r \in 1..rows |-> BlankRow(nch)]]

\* CPattern::Resize(rows): rows are cut off or empty rows are appended.
ResizePattern(grid, nch, rows) ==
    [r \in 1..rows |-> IF r <= Len(grid) THEN grid[r] ELSE BlankRow(nch)]

\* CModDoc::ReArrangeChannels with channels[i] = i for the channels kept and
\* CHANNELINDEX_INVALID for the ones added: every pattern row is cut or padded.
ReArrangeChannels(pats, newCount) ==
    [p \in PatIds |->
       [r \in 1..Len(pats[p]) |->
          [c \in 1..newCount |-> IF c <= Len(pats[p][r]) THEN pats[p][r][c] ELSE 0]]]

\* PrepareBuffer without lines 66-70: a full buffer keeps its oldest step.
PatPrepareBufferNoEvict(buffer, doc, pattern, firstChn, firstRow, numChns, numRows, linkToPrevious, storeChannelInfo, allocOk) ==
    IF ~IsValidPat(doc.pats, pattern)
    THEN [ok |-> FALSE, why |-> "id", buffer |-> buffer]
    ELSE
      LET nRows == GetNumRows(doc.pats[pattern]) IN
      IF firstRow >= nRows \/ numChns < 1 \/ numRows < 1 \/ firstChn >= doc.nch
      THEN [ok |-> FALSE, why |-> "range", buffer |-> buffer]
      ELSE
        LET rows == IF firstRow + numRows >= nRows THEN nRows - firstRow ELSE numRows
            chns == IF firstChn + numChns >= doc.nch THEN doc.nch - firstChn ELSE numChns
            undo == [pattern |-> pattern,
                     numPatternRows |-> nRows,
                     firstChannel |-> firstChn,
                     firstRow |-> firstRow,
                     numChannels |-> chns,
                     numRows |-> rows,
                     content |-> [i \in 1..(rows * chns) |->
                                    doc.pats[pattern][firstRow + ((i - 1) \div chns) + 1]
                                                     [firstChn + ((i - 1) % chns) + 1]],
                     linkToPrevious |-> linkToPrevious,
                     channelInfo |-> IF storeChannelInfo THEN doc.chs ELSE <<>>]
        IN IF ~allocOk THEN [ok |-> FALSE, why |-> "alloc", buffer |-> buffer]
           ELSE [ok |-> TRUE, why |-> "ok", buffer |-> Append(buffer, undo)]

\* CPatternUndo::PrepareBuffer.  Returns [ok, why, buffer]: the return value,
\* the path taken ("evict": success after the oldest step was removed) and the
\* buffer as the call leaves it.  allocOk: whether undo.content.resize() gets
\* its memory.
PatPrepareBuffer(buffer, doc, pattern, firstChn, firstRow, numChns, numRows, linkToPrevious, storeChannelInfo, allocOk) ==
    IF ~IsValidPat(doc.pats, pattern)
    THEN [ok |-> FALSE, why |-> "id", buffer |-> buffer]
    ELSE
      LET nRows == GetNumRows(doc.pats[pattern]) IN
      IF firstRow >= nRows \/ numChns < 1 \/ numRows < 1 \/ firstChn >= doc.nch
      THEN [ok |-> FALSE, why |-> "range", buffer |-> buffer]
      ELSE
        LET rows == IF firstRow + numRows >= nRows THEN nRows - firstRow ELSE numRows
            chns == IF firstChn + numChns >= doc.nch THEN doc.nch - firstChn ELSE numChns
            kept == IF Len(buffer) >= MAX_UNDO_LEVEL
                    THEN DropFirst(buffer, Len(buffer) - MAX_UNDO_LEVEL + 1)
                    ELSE buffer
            undo == [pattern |-> pattern,
                     numPatternRows |-> nRows,
                     firstChannel |-> firstChn,
                     firstRow |-> firstRow,
                     numChannels |-> chns,
                     numRows |-> rows,
                     content |-> [i \in 1..(rows * chns) |->
                                    doc.pats[pattern][firstRow + ((i - 1) \div chns) + 1]
                                                     [firstChn + ((i - 1) % chns) + 1]],
                     linkToPrevious |-> linkToPrevious,
                     channelInfo |-> IF storeChannelInfo THEN doc.chs ELSE <<>>]
        IN IF ~allocOk THEN [ok |-> FALSE, why |-> "alloc", buffer |-> kept]
           ELSE [ok |-> TRUE, why |-> IF kept = buffer THEN "ok" ELSE "evict",
                 buffer |-> Append(kept, undo)]

\* Lines 139-160: the document takes the channel count and settings of the record.
PatRestoreChannels(doc, undo) ==
    IF undo.channelInfo = <<>> THEN doc
    ELSE [pats |-> IF Len(undo.channelInfo) # doc.nch
                   THEN ReArrangeChannels(doc.pats, Len(undo.channelInfo))
                   ELSE doc.pats,
          nch |-> Len(undo.channelInfo),
          chs |-> undo.channelInfo]

\* Lines 178-187: the saved cells go back, row by row.
PatRestoreCells(grid, undo) ==
    LET numRows == Min(undo.numRows, GetNumRows(grid)) IN
    [r \in 1..Len(grid) |->
       [c \in 1..Len(grid[r]) |->
          IF /\ r > undo.firstRow /\ r <= undo.firstRow + numRows
             /\ c > undo.firstChannel /\ c <= undo.firstChannel + undo.numChannels
          THEN undo.content[(r - undo.firstRow - 1) * undo.numChannels
                            + (c - undo.firstChannel)]
          ELSE grid[r][c]]]

\* Lines 180-187: whether the copy loop writes behind the last row of the grid.
PatWritesOutside(grid, undo) ==
    undo.firstRow + Min(undo.numRows, GetNumRows(grid)) > GetNumRows(grid)

\* CPatternUndo::Undo(fromBuf, toBuf, linkedFromPrevious).  env.alloc: whether the
\* mirror capture gets its memory; env.insert: whether Patterns.Insert succeeds;
\* env.resize: whether CPattern::Resize does.  Returns [ret, fromBuf, toBuf, doc,
\* popped, crash]; popped counts the records taken off fromBuf, crash tells
\* that the call wrote outside a pattern's grid.
RECURSIVE PatUndoImpl(_, _, _, _, _)
PatUndoImpl(fromBuf, toBuf, doc, linkedFromPrevious, env) ==
    IF fromBuf = <<>>
    THEN [ret |-> PATTERNINDEX_INVALID, fromBuf |-> fromBuf, toBuf |-> toBuf,
          doc |-> doc, popped |-> 0, crash |-> FALSE]
    ELSE
      LET undo == fromBuf[Len(fromBuf)]
          prep == PatPrepareBuffer(toBuf, doc, undo.pattern, undo.firstChannel,
                                   undo.firstRow, undo.numChannels, undo.numRows,
                                   linkedFromPrevious, undo.channelInfo # <<>>, env.alloc)
          doc1 == PatRestoreChannels(doc, undo)
          nPattern == undo.pattern
          fits == undo.firstChannel + undo.numChannels <= doc1.nch
          inserted == env.insert /\ nPattern \in PatIds
      IN
      IF fits /\ ~IsValidPat(doc1.pats, nPattern) /\ ~inserted
      THEN [ret |-> PATTERNINDEX_INVALID, fromBuf |-> PopBack(fromBuf),
            toBuf |-> prep.buffer, doc |-> doc1, popped |-> 1, crash |-> FALSE]
      ELSE
        LET pats2 == IF ~fits THEN doc1.pats
                     ELSE IF ~IsValidPat(doc1.pats, nPattern)
                     THEN InsertPattern(doc1.pats, doc1.nch, nPattern, undo.numPatternRows)
                     ELSE IF GetNumRows(doc1.pats[nPattern]) # undo.numPatternRows
                             /\ env.resize
                     THEN [doc1.pats EXCEPT ![nPattern] =
                             ResizePattern(@, doc1.nch, undo.numPatternRows)]
                     ELSE doc1.pats
            pats3 == IF ~fits THEN pats2
                     ELSE [pats2 EXCEPT ![nPattern] = PatRestoreCells(@, undo)]
            doc3 == [doc1 EXCEPT !.pats = pats3]
            linkToPrevious == fits /\ undo.linkToPrevious
        IN IF fits /\ PatWritesOutside(pats2[nPattern], undo)
           THEN [ret |-> nPattern, fromBuf |-> fromBuf, toBuf |-> prep.buffer,
                 doc |-> [doc1 EXCEPT !.pats = pats2], popped |-> 0, crash |-> TRUE]
           ELSE IF linkToPrevious
           THEN LET rest == PatUndoImpl(PopBack(fromBuf), prep.buffer, doc3, TRUE, env)
                IN [rest EXCEPT !.popped = @ + 1]
           ELSE [ret |-> nPattern, fromBuf |-> PopBack(fromBuf), toBuf |-> prep.buffer,
                 doc |-> doc3, popped |-> 1, crash |-> FALSE]

\* CPatternUndo::RearrangePatterns(buffer, newIndex); newIndex[p + 1] is the new
\* index of pattern p.
PatRearrangeIn(buffer, newIndex) ==
    [i \in 1..Len(buffer) |->
       IF buffer[i].pattern >= 0 /\ buffer[i].pattern < Len(newIndex)
       THEN [buffer[i] EXCEPT !.pattern = newIndex[buffer[i].pattern + 1]]
       ELSE buffer[i]]

\* ---- actions

\* What one behaviour does to the patterns: the rectangle PrepareUndo is called
\* with, whether the channel settings are stored with it, and the kind of
\* mutation the editor makes.
PatScopes ==
    [firstChn : {0}, firstRow : {0}, numChns : {MaxChn}, numRows : {MaxRows},
     storeChannelInfo : BOOLEAN, edit : {"EditCell", "Resize", "Delete", "SetChannels"}]
    \cup
    [firstChn : {MaxChn - 1}, firstRow : {MaxRows - 1}, numChns : {1}, numRows : {1},
     storeChannelInfo : {FALSE}, edit : {"EditCell", "Resize"}]
    \cup
    [firstChn : {0}, firstRow : {0}, numChns : {MaxChn}, numRows : {MaxRows},
     storeChannelInfo : {FALSE}, edit : {"Rearrange"}]

\* Rectangles PrepareBuffer has to reject: no rows, no channels, a first row or
\* a first channel outside the largest grid.
PatBadRects ==
    {[firstChn |-> 0, firstRow |-> 0, numChns |-> 1, numRows |-> 0],
     [firstChn |-> 0, firstRow |-> 0, numChns |-> 0, numRows |-> 1],
     [firstChn |-> 0, firstRow |-> MaxRows, numChns |-> 1, numRows |-> 1],
     [firstChn |-> MaxChn, firstRow |-> 0, numChns |-> 1, numRows |-> 1]}

PatScopeRect ==
    [firstChn |-> scope.firstChn, firstRow |-> scope.firstRow,
     numChns |-> scope.numChns, numRows |-> scope.numRows]

\* The rectangle PrepareBuffer stores for rect on the pattern as it is now.
PatClamped(doc, pattern, rect) ==
    LET nRows == GetNumRows(doc.pats[pattern]) IN
    [firstChn |-> rect.firstChn, firstRow |-> rect.firstRow,
     numChns |-> Min(rect.numChns, doc.nch - rect.firstChn),
     numRows |-> Min(rect.numRows, nRows - rect.firstRow)]

\* The calls of PrepareUndo: the rectangle of the behaviour on an existing
\* pattern, linked or not, with or without memory for the snapshot; the same on
\* an index without a pattern; every rejected rectangle.
PatCalls ==
    {[pattern |-> 0, rect |-> PatScopeRect, linkToPrevious |-> l, allocOk |-> a] :
        l \in BOOLEAN, a \in BOOLEAN}
    \cup {[pattern |-> NumPats, rect |-> PatScopeRect, linkToPrevious |-> FALSE,
           allocOk |-> TRUE]}
    \cup {[pattern |-> 0, rect |-> r, linkToPrevious |-> FALSE, allocOk |-> TRUE] :
           r \in PatBadRects}

\* CPatternUndo::PrepareUndo
PatPrepareUndo ==
    /\ engine = "pat"
    /\ last.why # "crash"
    /\ prepares < MaxPrepares
    /\ \E call \in PatCalls :
         \E r \in {PatPrepareBuffer(PatUndoBuffer, PatDoc, call.pattern,
                                    call.rect.firstChn, call.rect.firstRow,
                                    call.rect.numChns, call.rect.numRows,
                                    call.linkToPrevious, scope.storeChannelInfo,
                                    call.allocOk)} :
            /\ PatUndoBuffer' = r.buffer
            /\ PatRedoBuffer' = IF r.ok THEN <<>> ELSE PatRedoBuffer
            /\ last' = Call("PrepareUndo", call.pattern, r.ok, r.why)
            /\ prepares' = IF r.ok THEN prepares + 1 ELSE prepares
            /\ scen' = IF r.ok
                       THEN [Scen("prepared", call.pattern, <<>>) EXCEPT
                               !.snaps = <<PatClamped(PatDoc, call.pattern, call.rect)>>]
                       ELSE NoScen
    /\ UNCHANGED <<engine, scope, edits, PatDoc, smpVars, insVars>>

\* The environments of one Undo or Redo call: whether the mirror capture gets
\* its memory, whether Patterns.Insert and CPattern::Resize succeed (Resize is
\* called only where the editor resizes patterns).
PatUndoEnvs ==
    [alloc : BOOLEAN, insert : BOOLEAN,
     resize : IF scope.edit = "Resize" THEN BOOLEAN ELSE {TRUE}]

\* CPatternUndo::Undo()
PatUndo ==
    /\ engine = "pat"
    /\ last.why # "crash"
    /\ \E env \in PatUndoEnvs :
         \E r \in {PatUndoImpl(PatUndoBuffer, PatRedoBuffer, PatDoc, FALSE, env)} :
            /\ PatUndoBuffer' = r.fromBuf
            /\ PatRedoBuffer' = r.toBuf
            /\ PatDoc' = r.doc
            /\ last' = Call("Undo", r.ret, r.ret # PATTERNINDEX_INVALID,
                            IF r.crash THEN "crash"
                            ELSE IF r.popped = 0 THEN "empty"
                            ELSE IF r.ret = PATTERNINDEX_INVALID THEN "none" ELSE "ok")
            /\ scen' = IF scen.st = "mutated" /\ r.ret = scen.id
                       THEN [scen EXCEPT !.st = "undone"]
                       ELSE NoScen
    /\ UNCHANGED <<engine, scope, prepares, edits, smpVars, insVars>>

\* CPatternUndo::Redo()
PatRedo ==
    /\ engine = "pat"
    /\ last.why # "crash"
    /\ \E env \in PatUndoEnvs :
         \E r \in {PatUndoImpl(PatRedoBuffer, PatUndoBuffer, PatDoc, FALSE, env)} :
            /\ PatRedoBuffer' = r.fromBuf
            /\ PatUndoBuffer' = r.toBuf
            /\ PatDoc' = r.doc
            /\ last' = Call("Redo", r.ret, r.ret # PATTERNINDEX_INVALID,
                            IF r.crash THEN "crash"
                            ELSE IF r.popped = 0 THEN "empty"
                            ELSE IF r.ret = PATTERNINDEX_INVALID THEN "none" ELSE "ok")
            /\ scen' = IF scen.st = "undone" THEN [scen EXCEPT !.st = "redone"]
                       ELSE NoScen
    /\ UNCHANGED <<engine, scope, prepares, edits, smpVars, insVars>>

\* After a mutation of pattern p: the duality scenario goes on when the editor
\* changed what the undo point it has just taken covers.
PatScenAfterEdit(p, covered, pats) ==
    IF scen.st = "prepared" /\ scen.id = p /\ covered
    THEN Scen("mutated", p, pats[p])
    ELSE NoScen

\* The editor writes a note into one cell of a pattern.
PatEditCell ==
    /\ engine = "pat"
    /\ last.why # "crash"
    /\ scope.edit = "EditCell"
    /\ edits < MaxEdits
    /\ \E p \in PatIds, r \in 1..MaxRows, c \in 1..MaxChn :
         /\ IsValidPat(PatDoc.pats, p)
         /\ r <= GetNumRows(PatDoc.pats[p])
         /\ c <= PatDoc.nch
         /\ PatDoc' = [PatDoc EXCEPT !.pats[p][r][c] = 1 - @]
         /\ last' = Call("EditCell", p, TRUE, "ok")
         /\ scen' = PatScenAfterEdit(p,
                       /\ scen.snaps # <<>>
                       /\ r > scen.snaps[1].firstRow
                       /\ r <= scen.snaps[1].firstRow + scen.snaps[1].numRows
                       /\ c > scen.snaps[1].firstChn
                       /\ c <= scen.snaps[1].firstChn + scen.snaps[1].numChns,
                       PatDoc'.pats)
    /\ edits' = edits + 1
    /\ UNCHANGED <<engine, scope, prepares, PatUndoBuffer, PatRedoBuffer, smpVars, insVars>>

\* The editor resizes a pattern (CPattern::Resize).
PatResize ==
    /\ engine = "pat"
    /\ last.why # "crash"
    /\ scope.edit = "Resize"
    /\ edits < MaxEdits
    /\ \E p \in PatIds, rows \in 1..MaxRows :
         /\ IsValidPat(PatDoc.pats, p)
         /\ rows # GetNumRows(PatDoc.pats[p])
         /\ PatDoc' = [PatDoc EXCEPT !.pats[p] = ResizePattern(@, PatDoc.nch, rows)]
         /\ last' = Call("Resize", p, TRUE, "ok")
         /\ scen' = PatScenAfterEdit(p, TRUE, PatDoc'.pats)
    /\ edits' = edits + 1
    /\ UNCHANGED <<engine, scope, prepares, PatUndoBuffer, PatRedoBuffer, smpVars, insVars>>

\* The editor deletes a pattern (CPatternContainer::Remove).
PatDelete ==
    /\ engine = "pat"
    /\ last.why # "crash"
    /\ scope.edit = "Delete"
    /\ edits < MaxEdits
    /\ \E p \in PatIds :
         /\ IsValidPat(PatDoc.pats, p)
         /\ PatDoc' = [PatDoc EXCEPT !.pats[p] = NoPattern]
         /\ last' = Call("Delete", p, TRUE, "ok")
         /\ scen' = PatScenAfterEdit(p, TRUE, PatDoc'.pats)
    /\ edits' = edits + 1
    /\ UNCHANGED <<engine, scope, prepares, PatUndoBuffer, PatRedoBuffer, smpVars, insVars>>

\* The editor adds or removes a channel (CModDoc::ReArrangeChannels).
PatSetChannels ==
    /\ engine = "pat"
    /\ last.why # "crash"
    /\ scope.edit = "SetChannels"
    /\ edits < MaxEdits
    /\ \E nch \in 1..MaxChn :
         /\ nch # PatDoc.nch
         /\ PatDoc' = [pats |-> ReArrangeChannels(PatDoc.pats, nch), nch |-> nch,
                       chs |-> [c \in 1..nch |-> IF c <= PatDoc.nch THEN PatDoc.chs[c]
                                                 ELSE 0]]
         /\ last' = Call("SetChannels", nch, TRUE, "ok")
    /\ scen' = NoScen
    /\ edits' = edits + 1
    /\ UNCHANGED <<engine, scope, prepares, PatUndoBuffer, PatRedoBuffer, smpVars, insVars>>

\* CPatternUndo::RemoveLastUndoStep
PatRemoveLastUndoStep ==
    /\ engine = "pat"
    /\ last.why # "crash"
    /\ scope.edit = "Rearrange"
    /\ PatUndoBuffer' = IF PatUndoBuffer # <<>> THEN PopBack(PatUndoBuffer)
                        ELSE PatUndoBuffer
    /\ last' = Call("RemoveLastUndoStep", 0, PatUndoBuffer # <<>>, "ok")
    /\ scen' = NoScen
    /\ UNCHANGED <<engine, scope, prepares, edits, PatDoc, PatRedoBuffer, smpVars, insVars>>

\* The mappings the patterns are rearranged with, as the new index of pattern
\* 0, 1, ...: the identity, the swap of the pattern with the free index behind
\* it, the empty vector.
PatMappingList == <<(<<0, 1>>), (<<1, 0>>), (<<>>)>>

\* CPatternUndo::RearrangePatterns(newIndex).  last.id is the position of the
\* mapping in PatMappingList.
PatRearrange ==
    /\ engine = "pat"
    /\ last.why # "crash"
    /\ scope.edit = "Rearrange"
    /\ \E m \in 1..Len(PatMappingList) :
         /\ PatUndoBuffer' = PatRearrangeIn(PatUndoBuffer, PatMappingList[m])
         /\ PatRedoBuffer' = PatRearrangeIn(PatRedoBuffer, PatMappingList[m])
         /\ last' = Call("Rearrange", m, TRUE, "ok")
    /\ scen' = NoScen
    /\ UNCHANGED <<engine, scope, prepares, edits, PatDoc, smpVars, insVars>>

PatNext ==
    \/ PatPrepareUndo \/ PatUndo \/ PatRedo
    \/ PatEditCell \/ PatResize \/ PatDelete \/ PatSetChannels
    \/ PatRemoveLastUndoStep \/ PatRearrange

\* One pattern, the initial grid, and no history.
PatInit ==
    /\ PatDoc = [pats |-> [p \in PatIds |-> PatInitialGrid],
                 nch |-> MaxChn,
                 chs |-> [c \in 1..MaxChn |-> c]]
    /\ PatUndoBuffer = <<>>
    /\ PatRedoBuffer = <<>>

\* ======================================================================
\* Sample undo (CSampleUndo)
\* ======================================================================

\* Sample slots 1 .. MAX_SAMPLES - 1; 8-bit mono frames of two bits each.
MAX_SAMPLES == 3
GetBytesPerSample == 1
SmpIds == 1..(MAX_SAMPLES - 1)
Frames == 0..3
\* What a read past the end of an allocation may find: cleared or set bits.
Garbage == {0, 3}

\* The configured size of the sample undo buffer, in bytes: a small one, and one
\* that no history of the bounded behaviours exceeds.
SmallBudget == 1
BigBudget == 4 * MAX_UNDO_LEVEL * (2 + MaxEdits) + 1

\* A sample buffer pointer: nullptr, or the frames allocated behind it.  id
\* tells the allocations of one call apart: while a call runs, every buffer a
\* record owns carries its own id (SmpTagged), and the buffer the call allocates
\* carries NewTag; between calls every id is 0.
NullSample == [null |-> TRUE, data |-> <<>>, id |-> 0]
SamplePtr(frames) == [null |-> FALSE, data |-> frames, id |-> 0]
NewTag == 1
AllocateSample(frames) == [null |-> FALSE, data |-> frames, id |-> NewTag]

\* The ids of the buffers the records of one stack own, oldest first.
Owned(stack) ==
    LET ptrs == [i \in 1..Len(stack) |-> stack[i].samplePtr]
        NotNull(ptr) == ~ptr.null
        owned == SelectSeq(ptrs, NotNull)
    IN [i \in 1..Len(owned) |-> owned[i].id]

\* The buffer with a distinct id, above base, on every payload pointer.
SmpTagged(buffer, base) ==
    [smp \in 1..Len(buffer) |->
       [i \in 1..Len(buffer[smp]) |->
          IF buffer[smp][i].samplePtr.null THEN buffer[smp][i]
          ELSE [buffer[smp][i] EXCEPT
                  !.samplePtr.id = base + smp * (MAX_UNDO_LEVEL + 1) + i]]]

\* The buffer as it is kept between calls.
SmpUntagged(buffer) ==
    [smp \in 1..Len(buffer) |->
       [i \in 1..Len(buffer[smp]) |-> [buffer[smp][i] EXCEPT !.samplePtr.id = 0]]]

\* ModSample::FreeSample on the buffers ids, in the call whose state is B.
FreeSample(B, ids) == [B EXCEPT !.freed = @ \o ids]

\* ModSample::HasSampleData
HasSampleData(sample) == ~sample.pSample.null /\ sample.nLength # 0

\* The frame at 0-based offset i behind ptr; a read past the allocation yields
\* whatever lies there.
Frame(ptr, i, garbage) ==
    IF i < Len(ptr.data) THEN ptr.data[i + 1] ELSE garbage

\* The header fields ModSample's copy assignment carries.
SmpHeader(sample) ==
    [nLength |-> sample.nLength, keepOnDisk |-> sample.keepOnDisk,
     modified |-> sample.modified]

\* The audible part of a sample: its length and its frames.
LiveData(sample) ==
    [nLength |-> sample.nLength,
     data |-> [i \in 1..sample.nLength |-> Frame(sample.pSample, i - 1, 0)]]

RECURSIVE SeqSum(_)
SeqSum(s) == IF s = <<>> THEN 0 ELSE s[1] + SeqSum(Tail(s))

\* The bytes one step counts for (lines 606-609).
StepBytes(step) ==
    IF step.samplePtr.null THEN 0
    ELSE (step.changeEnd - step.changeStart) * GetBytesPerSample

\* CSampleUndo::GetBufferCapacity
GetBufferCapacity(buffer) ==
    SeqSum([smp \in 1..Len(buffer) |->
              SeqSum([i \in 1..Len(buffer[smp]) |-> StepBytes(buffer[smp][i])])])

\* CSampleUndo::SampleBufferExists
SampleBufferExists(buffer, smp) ==
    IF smp = 0 \/ smp >= MAX_SAMPLES THEN FALSE ELSE smp <= Len(buffer)

\* CSampleUndo::ClearUndo(buffer, smp)
SmpClearUndoIn(buffer, smp) ==
    IF ~SampleBufferExists(buffer, smp) THEN buffer
    ELSE [buffer EXCEPT ![smp] = <<>>]

\* CSampleUndo::DeleteStep (step is 0-based)
SmpDeleteStep(buffer, smp, step) ==
    IF ~SampleBufferExists(buffer, smp) THEN buffer
    ELSE IF step >= Len(buffer[smp]) THEN buffer
    ELSE [buffer EXCEPT ![smp] =
            [i \in 1..(Len(@) - 1) |-> IF i <= step THEN @[i] ELSE @[i + 1]]]

\* A sweep without the break of line 559: every buffer-bearing record of a
\* slot goes before the sweep moves on to the next slot.
RECURSIVE RestrictSweepDraining(_, _, _, _)
RestrictSweepDraining(buffer, capacity, smp, limit) ==
    IF smp > Len(buffer) \/ capacity <= limit
    THEN [buffer |-> buffer, capacity |-> capacity, freed |-> <<>>]
    ELSE LET bearing == {i \in 1..Len(buffer[smp]) : ~buffer[smp][i].samplePtr.null}
         IN IF bearing = {}
            THEN RestrictSweepDraining(buffer, capacity, smp + 1, limit)
            ELSE LET i == CHOOSE k \in bearing : \A j \in bearing : k >= j
                     rest == RestrictSweepDraining([buffer EXCEPT ![smp] = DropFirst(@, i)],
                                 capacity - SeqSum([j \in 1..i |-> StepBytes(buffer[smp][j])]),
                                 smp + 1, limit)
                 IN [rest EXCEPT !.freed = Owned(SubSeq(buffer[smp], 1, i)) \o @]

\* CSampleUndo::RestrictBufferSize(buffer, capacity), from slot smp on.
RECURSIVE RestrictSweep(_, _, _, _)
RestrictSweep(buffer, capacity, smp, limit) ==
    IF smp > Len(buffer) \/ capacity <= limit
    THEN [buffer |-> buffer, capacity |-> capacity, freed |-> <<>>]
    ELSE LET bearing == {i \in 1..Len(buffer[smp]) : ~buffer[smp][i].samplePtr.null}
         IN IF bearing = {}
            THEN RestrictSweep(buffer, capacity, smp + 1, limit)
            ELSE LET i == CHOOSE k \in bearing : \A j \in bearing : k <= j
                     rest == RestrictSweep([buffer EXCEPT ![smp] = DropFirst(@, i)],
                                           capacity - StepBytes(buffer[smp][i]),
                                           smp + 1, limit)
                 IN [rest EXCEPT !.freed = Owned(SubSeq(buffer[smp], 1, i)) \o @]

\* A round that takes the bytes the undo sweep has freed off the counter
\* a second time.
RestrictRoundCountsTwice(B, capacity, limit) ==
    LET u == RestrictSweep(B.undo, capacity, 1, limit)
        r == RestrictSweep(B.redo, u.capacity, 1, limit)
    IN [B |-> FreeSample([B EXCEPT !.undo = u.buffer, !.redo = r.buffer],
                         u.freed \o r.freed),
        capacity |-> r.capacity - (capacity - u.capacity)]

\* One round of the loop of CSampleUndo::RestrictBufferSize() (lines 538-539):
\* a sweep over the undo buffer, then one over the redo buffer.  Returns the
\* buffers and the capacity counter as the round leaves them.
RestrictRound(B, capacity, limit) ==
    LET u == RestrictSweep(B.undo, capacity, 1, limit)
        r == RestrictSweep(B.redo, u.capacity, 1, limit)
    IN [B |-> FreeSample([B EXCEPT !.undo = u.buffer, !.redo = r.buffer],
                         u.freed \o r.freed),
        capacity |-> r.capacity]

\* The loop of CSampleUndo::RestrictBufferSize().
RECURSIVE RestrictLoop(_, _, _)
RestrictLoop(B, capacity, limit) ==
    IF capacity <= limit THEN B
    ELSE LET round == RestrictRound(B, capacity, limit)
         IN RestrictLoop(round.B, round.capacity, limit)

\* CSampleUndo::RestrictBufferSize(); B holds UndoBuffer and RedoBuffer.
RestrictBufferSize(B, limit) ==
    RestrictLoop(B, GetBufferCapacity(B.undo) + GetBufferCapacity(B.redo), limit)

\* A PrepareBuffer that tests whether sample undo is disabled only after it
\* has made room in the slot.
SmpPrepareBufferLateTest(B, dir, samples, limit, smp, changeType, start, end, env) ==
    IF smp = 0 \/ smp >= MAX_SAMPLES THEN [ok |-> FALSE, why |-> "id", B |-> B]
    ELSE
      LET grown == GrowTo(B[dir], smp)
          kept == [grown EXCEPT ![smp] =
                     IF Len(@) >= MAX_UNDO_LEVEL
                     THEN DropFirst(@, Len(@) - MAX_UNDO_LEVEL + 1) ELSE @]
          B1 == FreeSample([B EXCEPT ![dir] = kept],
                           Owned(SubSeq(grown[smp], 1, Len(grown[smp]) - Len(kept[smp]))))
          oldSample == samples[smp]
          changeStart == IF changeType \in {"replace", "none"} THEN 0 ELSE start
          changeEnd == IF changeType = "replace" THEN oldSample.nLength
                       ELSE IF changeType = "none" THEN 0 ELSE end
      IN
      IF limit = 0 THEN [ok |-> FALSE, why |-> "disabled", B |-> B1]
      ELSE
      IF changeStart > oldSample.nLength \/ changeStart > changeEnd
      THEN [ok |-> FALSE, why |-> "range", B |-> B1]
      ELSE
        LET B2 == RestrictBufferSize(B1, limit)
            copies == /\ changeType \in {"update", "delete", "replace"}
                      /\ HasSampleData(oldSample)
            undo == [OldSample |-> SmpHeader(oldSample),
                     changeType |-> changeType,
                     changeStart |-> changeStart,
                     changeEnd |-> changeEnd,
                     samplePtr |->
                        IF copies
                        THEN AllocateSample([i \in 1..(changeEnd - changeStart) |->
                                 Frame(oldSample.pSample, changeStart + i - 1, env.garbage)])
                        ELSE NullSample]
        IN IF copies /\ ~env.alloc THEN [ok |-> FALSE, why |-> "alloc", B |-> B2]
           ELSE [ok |-> TRUE, why |-> IF kept = grown THEN "ok" ELSE "evict",
                 B |-> [B2 EXCEPT ![dir][smp] = Append(@, undo)]]

\* CSampleUndo::PrepareBuffer on buffer B[dir].  env.alloc: whether
\* AllocateSample gets its memory; env.garbage: what a read past the sample's
\* allocation yields.  Returns [ok, why, B].
SmpPrepareBuffer(B, dir, samples, limit, smp, changeType, start, end, env) ==
    IF smp = 0 \/ smp >= MAX_SAMPLES THEN [ok |-> FALSE, why |-> "id", B |-> B]
    ELSE IF limit = 0 THEN [ok |-> FALSE, why |-> "disabled", B |-> B]
    ELSE
      LET grown == GrowTo(B[dir], smp)
          kept == [grown EXCEPT ![smp] =
                     IF Len(@) >= MAX_UNDO_LEVEL
                     THEN DropFirst(@, Len(@) - MAX_UNDO_LEVEL + 1) ELSE @]
          B1 == FreeSample([B EXCEPT ![dir] = kept],
                           Owned(SubSeq(grown[smp], 1, Len(grown[smp]) - Len(kept[smp]))))
          oldSample == samples[smp]
          changeStart == IF changeType \in {"replace", "none"} THEN 0 ELSE start
          changeEnd == IF changeType = "replace" THEN oldSample.nLength
                       ELSE IF changeType = "none" THEN 0 ELSE end
      IN
      IF changeStart > oldSample.nLength \/ changeStart > changeEnd
      THEN [ok |-> FALSE, why |-> "range", B |-> B1]
      ELSE
        LET B2 == RestrictBufferSize(B1, limit)
            copies == /\ changeType \in {"update", "delete", "replace"}
                      /\ HasSampleData(oldSample)
            undo == [OldSample |-> SmpHeader(oldSample),
                     changeType |-> changeType,
                     changeStart |-> changeStart,
                     changeEnd |-> changeEnd,
                     samplePtr |->
                        IF copies
                        THEN AllocateSample([i \in 1..(changeEnd - changeStart) |->
                                 Frame(oldSample.pSample, changeStart + i - 1, env.garbage)])
                        ELSE NullSample]
        IN IF copies /\ ~env.alloc THEN [ok |-> FALSE, why |-> "alloc", B |-> B2]
           ELSE [ok |-> TRUE, why |-> IF kept = grown THEN "ok" ELSE "evict",
                 B |-> [B2 EXCEPT ![dir][smp] = Append(@, undo)]]

\* ctrlSmp::InvertSample, ReverseSample, UnsignSample on the frames [start, end)
\* the sample has.
SmpTransform(sample, kind, start, end) ==
    LET hi == Min(end, Min(sample.nLength, Len(sample.pSample.data)))
        data == sample.pSample.data
    IN IF ~HasSampleData(sample) \/ start >= hi THEN sample
       ELSE [sample EXCEPT !.pSample.data =
               [i \in 1..Len(data) |->
                  IF i <= start \/ i > hi THEN data[i]
                  ELSE IF kind = "invert" THEN 3 - data[i]
                  ELSE IF kind = "unsign" THEN (data[i] + 2) % 4
                  ELSE data[start + hi + 1 - i]]]

\* memcpy(p + dst, p + src, n) inside one allocation with dst < src.  Where the
\* two regions overlap the call is undefined: the frames may be copied in
\* ascending or in descending order.
RECURSIVE CopyDescending(_, _, _, _)
CopyDescending(data, dst, src, n) ==
    IF n = 0 THEN data
    ELSE CopyDescending([data EXCEPT ![dst + n] = data[src + n]], dst, src, n - 1)

MemcpyWithin(data, dst, src, n, descending) ==
    IF descending /\ dst + n > src
    THEN CopyDescending(data, dst, src, n)
    ELSE [i \in 1..Len(data) |->
            IF i > dst /\ i <= dst + n THEN data[i + (src - dst)] ELSE data[i]]

\* Lines 426-480: what the restore does to the live sample.  Returns
\* [status, pSample, replace]; status "crash" where a copy runs over the end
\* of an allocation or reads through nullptr.
SmpRestore(sample, undo, env) ==
    LET cur == sample.pSample
        changeLen == undo.changeEnd - undo.changeStart
        keep == [status |-> "ok", pSample |-> cur, replace |-> FALSE]
        crash == [status |-> "crash", pSample |-> cur, replace |-> FALSE]
        fail == [status |-> "fail", pSample |-> cur, replace |-> FALSE]
    IN
    CASE undo.changeType = "none" -> keep
      [] undo.changeType \in {"invert", "reverse", "unsign"} ->
           [keep EXCEPT !.pSample =
              SmpTransform(sample, undo.changeType, undo.changeStart, undo.changeEnd).pSample]
      [] undo.changeType = "insert" ->
           IF \/ sample.nLength < undo.changeEnd
              \/ sample.nLength < undo.OldSample.nLength
              \/ sample.nLength > Len(cur.data)
           THEN crash
           ELSE LET moved == MemcpyWithin(cur.data, undo.changeStart, undo.changeEnd,
                                          sample.nLength - undo.changeEnd, env.descending)
                IN [keep EXCEPT !.pSample.data =
                      [i \in 1..Len(moved) |->
                         IF i > undo.OldSample.nLength /\ i <= sample.nLength
                         THEN 0 ELSE moved[i]]]
      [] undo.changeType = "update" ->
           IF sample.nLength < undo.changeEnd THEN fail
           ELSE IF changeLen = 0 THEN keep
           ELSE IF undo.samplePtr.null \/ undo.changeEnd > Len(cur.data) THEN crash
           ELSE [keep EXCEPT !.pSample.data =
                   [i \in 1..Len(cur.data) |->
                      IF i > undo.changeStart /\ i <= undo.changeEnd
                      THEN undo.samplePtr.data[i - undo.changeStart] ELSE cur.data[i]]]
      [] undo.changeType = "delete" ->
           IF ~env.alloc2 THEN fail
           ELSE IF \/ undo.OldSample.nLength < undo.changeEnd
                   \/ (undo.samplePtr.null /\ changeLen > 0)
                   \/ (cur.null /\ undo.OldSample.nLength - changeLen > 0)
           THEN crash
           ELSE [status |-> "ok", replace |-> TRUE,
                 pSample |-> SamplePtr(
                    [i \in 1..undo.OldSample.nLength |->
                       IF i <= undo.changeStart THEN Frame(cur, i - 1, env.garbage)
                       ELSE IF i <= undo.changeEnd
                       THEN undo.samplePtr.data[i - undo.changeStart]
                       ELSE Frame(cur, i - 1 - changeLen, env.garbage)])]
      [] undo.changeType = "replace" ->
           [status |-> "ok", replace |-> TRUE, pSample |-> undo.samplePtr]

\* Line 473: the record handed its buffer to the sample.
SmpHandOver(B, undo) ==
    IF undo.changeType = "replace" /\ ~undo.samplePtr.null
    THEN [B EXCEPT !.installed = @ \o <<undo.samplePtr.id>>]
    ELSE B

\* Undo with the kind of the mirror capture confused: unsign for invert,
\* invert for reverse and for unsign.
SmpUndoImplWrongKind(B, from, to, samples, limit, smp, env) ==
    IF ~SampleBufferExists(B[from], smp)
    THEN [ok |-> FALSE, why |-> "empty", B |-> B, samples |-> samples]
    ELSE IF B[from][smp] = <<>>
    THEN [ok |-> FALSE, why |-> "empty", B |-> B, samples |-> samples]
    ELSE
      LET undo == B[from][smp][Len(B[from][smp])]
          popped == [B EXCEPT ![from][smp] = PopBack(@)]
          redoType == IF undo.changeType = "delete" THEN "insert"
                      ELSE IF undo.changeType = "insert" THEN "delete"
                      ELSE IF undo.changeType = "invert" THEN "unsign"
                      ELSE IF undo.changeType \in {"reverse", "unsign"} THEN "invert"
                      ELSE undo.changeType
          prep == SmpPrepareBuffer(popped, to, samples, limit, smp, redoType,
                                   undo.changeStart, undo.changeEnd, env)
          sample == samples[smp]
          res == SmpRestore(sample, undo, env)
      IN
      IF res.status = "crash"
      THEN [ok |-> FALSE, why |-> "crash", B |-> prep.B, samples |-> samples]
      ELSE IF res.status = "fail"
      THEN [ok |-> FALSE, why |-> "restore", B |-> prep.B, samples |-> samples]
      ELSE
        LET restored ==
              [nLength |-> undo.OldSample.nLength,
               pSample |-> res.pSample,
               keepOnDisk |-> undo.OldSample.keepOnDisk /\ sample.keepOnDisk,
               modified |-> undo.changeType # "none" \/ undo.OldSample.modified]
            spent == IF undo.changeType = "replace"
                     THEN [undo EXCEPT !.samplePtr = NullSample] ELSE undo
            pushed == [SmpHandOver(prep.B, undo) EXCEPT ![from][smp] = Append(@, spent)]
        IN [ok |-> TRUE, why |-> "ok",
            B |-> [FreeSample(pushed, Owned(<<spent>>)) EXCEPT
                     ![from] = SmpDeleteStep(@, smp, Len(pushed[from][smp]) - 1)],
            samples |-> [samples EXCEPT ![smp] = restored]]

\* Undo without lines 497-502: the sample takes the keep-on-disk flag of the
\* header the record saved.
SmpUndoImplKeepsFlag(B, from, to, samples, limit, smp, env) ==
    IF ~SampleBufferExists(B[from], smp)
    THEN [ok |-> FALSE, why |-> "empty", B |-> B, samples |-> samples]
    ELSE IF B[from][smp] = <<>>
    THEN [ok |-> FALSE, why |-> "empty", B |-> B, samples |-> samples]
    ELSE
      LET undo == B[from][smp][Len(B[from][smp])]
          popped == [B EXCEPT ![from][smp] = PopBack(@)]
          redoType == IF undo.changeType = "delete" THEN "insert"
                      ELSE IF undo.changeType = "insert" THEN "delete"
                      ELSE undo.changeType
          prep == SmpPrepareBuffer(popped, to, samples, limit, smp, redoType,
                                   undo.changeStart, undo.changeEnd, env)
          sample == samples[smp]
          res == SmpRestore(sample, undo, env)
      IN
      IF res.status = "crash"
      THEN [ok |-> FALSE, why |-> "crash", B |-> prep.B, samples |-> samples]
      ELSE IF res.status = "fail"
      THEN [ok |-> FALSE, why |-> "restore", B |-> prep.B, samples |-> samples]
      ELSE
        LET restored ==
              [nLength |-> undo.OldSample.nLength,
               pSample |-> res.pSample,
               keepOnDisk |-> undo.OldSample.keepOnDisk,
               modified |-> undo.changeType # "none" \/ undo.OldSample.modified]
            spent == IF undo.changeType = "replace"
                     THEN [undo EXCEPT !.samplePtr = NullSample] ELSE undo
            pushed == [SmpHandOver(prep.B, undo) EXCEPT ![from][smp] = Append(@, spent)]
        IN [ok |-> TRUE, why |-> "ok",
            B |-> [FreeSample(pushed, Owned(<<spent>>)) EXCEPT
                     ![from] = SmpDeleteStep(@, smp, Len(pushed[from][smp]) - 1)],
            samples |-> [samples EXCEPT ![smp] = restored]]

\* CSampleUndo::Undo(fromBuf, toBuf, smp); from and to name the two buffers of B.
\* Returns [ok, why, B, samples].
SmpUndoImpl(B, from, to, samples, limit, smp, env) ==
    IF ~SampleBufferExists(B[from], smp)
    THEN [ok |-> FALSE, why |-> "empty", B |-> B, samples |-> samples]
    ELSE IF B[from][smp] = <<>>
    THEN [ok |-> FALSE, why |-> "empty", B |-> B, samples |-> samples]
    ELSE
      LET undo == B[from][smp][Len(B[from][smp])]
          popped == [B EXCEPT ![from][smp] = PopBack(@)]
          redoType == IF undo.changeType = "delete" THEN "insert"
                      ELSE IF undo.changeType = "insert" THEN "delete"
                      ELSE undo.changeType
          prep == SmpPrepareBuffer(popped, to, samples, limit, smp, redoType,
                                   undo.changeStart, undo.changeEnd, env)
          sample == samples[smp]
          res == SmpRestore(sample, undo, env)
      IN
      IF res.status = "crash"
      THEN [ok |-> FALSE, why |-> "crash", B |-> prep.B, samples |-> samples]
      ELSE IF res.status = "fail"
      THEN [ok |-> FALSE, why |-> "restore", B |-> prep.B, samples |-> samples]
      ELSE
        LET restored ==
              [nLength |-> undo.OldSample.nLength,
               pSample |-> res.pSample,
               keepOnDisk |-> undo.OldSample.keepOnDisk /\ sample.keepOnDisk,
               modified |-> undo.changeType # "none" \/ undo.OldSample.modified]
            spent == IF undo.changeType = "replace"
                     THEN [undo EXCEPT !.samplePtr = NullSample] ELSE undo
            pushed == [SmpHandOver(prep.B, undo) EXCEPT ![from][smp] = Append(@, spent)]
        IN [ok |-> TRUE, why |-> "ok",
            B |-> [FreeSample(pushed, Owned(<<spent>>)) EXCEPT
                     ![from] = SmpDeleteStep(@, smp, Len(pushed[from][smp]) - 1)],
            samples |-> [samples EXCEPT ![smp] = restored]]

\* CSampleUndo::ClearUndo(smp): the slot's undo and redo history, freed.
SmpClearUndo(B, smp) ==
    LET ids == Owned(StackOf(B.undo, IF SampleBufferExists(B.undo, smp) THEN smp ELSE 0))
               \o Owned(StackOf(B.redo, IF SampleBufferExists(B.redo, smp) THEN smp ELSE 0))
    IN FreeSample([B EXCEPT !.undo = SmpClearUndoIn(@, smp),
                            !.redo = SmpClearUndoIn(@, smp)], ids)

\* CSampleUndo::ClearUndo(): every slot cleared, then both buffers emptied.
RECURSIVE SmpClearAllFrom(_, _)
SmpClearAllFrom(B, smp) ==
    IF smp > MAX_SAMPLES THEN [B EXCEPT !.undo = <<>>, !.redo = <<>>]
    ELSE SmpClearAllFrom(SmpClearUndo(B, smp), smp + 1)

\* CSampleUndo::CanUndo(smp)
SmpCanUndo(B, smp) == SampleBufferExists(B.undo, smp) /\ B.undo[smp] # <<>>

\* CSampleUndo::RemoveLastUndoStep
SmpRemoveLastUndoStepIn(B, smp) ==
    IF ~SmpCanUndo(B, smp) THEN B
    ELSE [FreeSample(B, Owned(<<B.undo[smp][Len(B.undo[smp])]>>)) EXCEPT
            !.undo = SmpDeleteStep(@, smp, Len(B.undo[smp]) - 1)]

\* CSoundFile::GetNumSamples of the document.
GetNumSamples == MAX_SAMPLES - 1

\* The loop of CSampleUndo::RearrangeSamples(buffer, newIndex) from slot smp on;
\* newIndex[s] is the new index of slot s, the vector's element 0 is not part
\* of the sequence.
RECURSIVE SmpRearrangeLoop(_, _, _, _, _, _)
SmpRearrangeLoop(B, dir, newIndex, newBuf, smp, oldSize) ==
    IF smp > oldSize THEN [B EXCEPT ![dir] = newBuf]
    ELSE IF smp < Len(newIndex) + 1 /\ newIndex[smp] > 0 /\ newIndex[smp] <= GetNumSamples
    THEN SmpRearrangeLoop(B, dir, newIndex,
                          [newBuf EXCEPT ![newIndex[smp]] = B[dir][smp]], smp + 1, oldSize)
    ELSE SmpRearrangeLoop(SmpClearUndo(B, smp), dir, newIndex, newBuf, smp + 1, oldSize)

\* RearrangeSamples with the loop starting at the second slot.
SmpRearrangeInFromSecond(B, dir, newIndex) ==
    SmpRearrangeLoop(B, dir, newIndex, [i \in 1..GetNumSamples |-> <<>>], 2, Len(B[dir]))

\* CSampleUndo::RearrangeSamples(buffer, newIndex) on buffer B[dir].
SmpRearrangeIn(B, dir, newIndex) ==
    SmpRearrangeLoop(B, dir, newIndex, [i \in 1..GetNumSamples |-> <<>>], 1, Len(B[dir]))

\* CSampleUndo::RearrangeSamples(newIndex): the undo buffer, then the redo buffer.
SmpRearrangeSamples(B, newIndex) ==
    SmpRearrangeIn(SmpRearrangeIn(B, "undo", newIndex), "redo", newIndex)

\* ---- actions

\* The two buffers as a call finds them, every payload buffer told apart, and
\* the buffers the call has freed or installed as live sample data so far.
SmpB ==
    [undo |-> SmpTagged(SmpUndoBuffer, 0),
     redo |-> SmpTagged(SmpRedoBuffer, MAX_SAMPLES * (MAX_UNDO_LEVEL + 1)),
     freed |-> <<>>, installed |-> <<>>]

\* The places (slot, step) of a buffer whose record owns a payload buffer.
Bearing(buffer) ==
    UNION {{<<smp, i>> : i \in {j \in 1..Len(buffer[smp]) : ~buffer[smp][j].samplePtr.null}} :
             smp \in 1..Len(buffer)}

\* The ids of the payload buffers the records of a buffer own.
OwnedBy(buffer) == {buffer[p[1]][p[2]].samplePtr.id : p \in Bearing(buffer)}

\* The elements of a sequence.
Range(ids) == {ids[i] : i \in 1..Len(ids)}

\* What became of the payload buffers in a call that found B0 and left B1: a
\* buffer is lost when no record owns it any more and it was neither freed nor
\* installed; it is released twice when it was freed twice, freed and
\* installed, or freed or installed and still owned.
SmpAudit(B0, B1) ==
    LET after == OwnedBy(B1.undo) \cup OwnedBy(B1.redo)
                 \cup Range(B1.freed) \cup Range(B1.installed)
    IN IF B1 = B0 THEN [lost |-> FALSE, twice |-> FALSE]
       ELSE [lost |-> ~((OwnedBy(B0.undo) \cup OwnedBy(B0.redo)) \subseteq after),
             twice |-> Cardinality(Bearing(B1.undo)) + Cardinality(Bearing(B1.redo))
                       + Len(B1.freed) + Len(B1.installed) > Cardinality(after)]

\* The live samples as they are kept between calls.
SmpLive(samples) == [smp \in DOMAIN samples |-> [samples[smp] EXCEPT !.pSample.id = 0]]

\* What one behaviour does to the samples: the change kind and range
\* PrepareUndo is called with, the mutation the editor makes, the configured
\* size of the undo buffer and the number of sample slots the editor works on.
SmpKinds ==
    {[kind |-> "invert", start |-> 0, end |-> 2, edit |-> "invert"],
     [kind |-> "reverse", start |-> 0, end |-> 2, edit |-> "reverse"],
     [kind |-> "unsign", start |-> 0, end |-> 2, edit |-> "unsign"],
     [kind |-> "insert", start |-> 1, end |-> 2, edit |-> "insert"],
     [kind |-> "update", start |-> 0, end |-> 1, edit |-> "update"],
     [kind |-> "update", start |-> 1, end |-> 2, edit |-> "truncate"],
     [kind |-> "delete", start |-> 0, end |-> 1, edit |-> "delete"],
     [kind |-> "replace", start |-> 0, end |-> 0, edit |-> "replace"]}

\* The kinds of the behaviours in which the editor changes the flags of the
\* sample and not its data: no change of the sample at all, an in-place update.
SmpFlagKinds ==
    {[kind |-> "none", start |-> 0, end |-> 2, edit |-> "flags"],
     [kind |-> "update", start |-> 0, end |-> 1, edit |-> "flags"]}

SmpScope(k, budget, slots, admin) ==
    [kind |-> k.kind, start |-> k.start, end |-> k.end, edit |-> k.edit,
     budget |-> budget, slots |-> slots, admin |-> admin]

\* Every kind on one sample slot without pressure on the budget; the kinds that
\* store a payload under a small budget as well, the in-place update on two
\* slots; one behaviour with sample undo disabled.
SmpScopes ==
    {SmpScope(k, BigBudget, 1, "none") : k \in SmpKinds}
    \cup {SmpScope(k, SmallBudget, IF k.edit = "update" THEN 2 ELSE 1, "none") :
            k \in {x \in SmpKinds : x.kind \in {"insert", "update", "delete", "replace"}}}
    \cup {SmpScope(k, 0, 1, "none") : k \in {x \in SmpKinds : x.edit = "update"}}
    \cup {SmpScope(k, BigBudget, 2, "rearrange") :
            k \in {x \in SmpKinds : x.edit = "update"}}
    \cup {SmpScope(k, BigBudget, 1, "budget") :
            k \in {x \in SmpKinds : x.edit = "update"}}
    \cup {SmpScope(k, BigBudget, 1, "flags") : k \in SmpFlagKinds}

\* The calls of PrepareUndo: the kind and range of the behaviour on a sample
\* the editor works on, with or without memory for the payload; the same on the two indices
\* that are no sample slots; a range that ends before it starts and one that
\* starts behind the end of the sample.
\* Whether AllocateSample gets its memory: either, but always where the
\* behaviour is about rearranging the samples.
SmpAllocs == IF scope.admin \in {"rearrange", "flags"} THEN {TRUE} ELSE BOOLEAN

SmpCalls ==
    {[smp |-> s, start |-> scope.start, end |-> scope.end, allocOk |-> a] :
        s \in 1..scope.slots, a \in SmpAllocs}
    \cup {[smp |-> s, start |-> scope.start, end |-> scope.end, allocOk |-> TRUE] :
           s \in {0, MAX_SAMPLES}}
    \cup {[smp |-> 1, start |-> 1, end |-> 0, allocOk |-> TRUE],
          [smp |-> 1, start |-> SmpSamples[1].nLength + 1,
           end |-> SmpSamples[1].nLength + 1, allocOk |-> TRUE]}

\* What a read past the end of sample smp's allocation can yield in a call
\* that reads up to frame end.
SmpGarbage(smp, end) ==
    IF smp \in SmpIds /\ end > Len(SmpSamples[smp].pSample.data) THEN Garbage ELSE {0}

\* CSampleUndo::PrepareUndo
SmpPrepareUndo ==
    /\ engine = "smp"
    /\ last.why # "crash"
    /\ prepares < MaxPrepares
    /\ \E B0 \in {SmpB} :
         /\ \E call \in SmpCalls : \E garbage \in SmpGarbage(call.smp, call.end) :
              \E r \in {SmpPrepareBuffer(B0, "undo", SmpSamples, SmpBudget, call.smp,
                                         scope.kind, call.start, call.end,
                                         [alloc |-> call.allocOk, garbage |-> garbage])} :
                \E B \in {IF r.ok
                          THEN FreeSample([r.B EXCEPT !.redo = SmpClearUndoIn(@, call.smp)],
                                          Owned(StackOf(r.B.redo, call.smp)))
                          ELSE r.B} :
                 /\ SmpUndoBuffer' = SmpUntagged(B.undo)
                 /\ SmpRedoBuffer' = SmpUntagged(B.redo)
                 /\ SmpLedger' = SmpAudit(B0, B)
                 /\ last' = Call("PrepareUndo", call.smp, r.ok, r.why)
                 /\ prepares' = IF r.ok THEN prepares + 1 ELSE prepares
                 /\ scen' = IF r.ok THEN Scen("prepared", call.smp, <<>>) ELSE NoScen
    /\ UNCHANGED <<engine, scope, edits, SmpSamples, SmpBudget, patVars, insVars>>

\* The environments of one Undo or Redo call on sample smp, by the kind of the
\* record on top of buffer: whether the mirror capture and the restore get
\* their memory, the order of an overlapping copy, what lies past the sample.
SmpUndoEnvs(smp, buffer) ==
    LET top == StackOf(buffer, smp)
        kind == IF top = <<>> THEN "none" ELSE top[Len(top)].changeType
        reads == /\ kind \in {"update", "delete", "insert"}
                 /\ \/ top[Len(top)].changeEnd > Len(SmpSamples[smp].pSample.data)
                    \/ top[Len(top)].OldSample.nLength - 1
                          > Len(SmpSamples[smp].pSample.data)
    IN [alloc : IF kind \in {"update", "insert", "replace"} THEN SmpAllocs ELSE {TRUE},
        alloc2 : IF kind = "delete" THEN SmpAllocs ELSE {TRUE},
        descending : IF kind = "insert" THEN BOOLEAN ELSE {FALSE},
        garbage : IF reads THEN Garbage ELSE {0}]

\* CSampleUndo::Undo(smp)
SmpUndo ==
    /\ engine = "smp"
    /\ last.why # "crash"
    /\ \E B0 \in {SmpB} :
         /\ \E smp \in 0..MAX_SAMPLES : \E env \in SmpUndoEnvs(smp, SmpUndoBuffer) :
              \E r \in {SmpUndoImpl(B0, "undo", "redo", SmpSamples, SmpBudget, smp, env)} :
                 /\ SmpUndoBuffer' = SmpUntagged(r.B.undo)
                 /\ SmpRedoBuffer' = SmpUntagged(r.B.redo)
                 /\ SmpLedger' = SmpAudit(B0, r.B)
                 /\ SmpSamples' = SmpLive(r.samples)
                 /\ last' = Call("Undo", smp, r.ok, r.why)
                 /\ scen' = IF scen.st = "mutated" /\ scen.id = smp /\ r.ok
                            THEN [scen EXCEPT !.st = "undone"]
                            ELSE NoScen
    /\ UNCHANGED <<engine, scope, prepares, edits, SmpBudget, patVars, insVars>>

\* CSampleUndo::Redo(smp)
SmpRedo ==
    /\ engine = "smp"
    /\ last.why # "crash"
    /\ \E B0 \in {SmpB} :
         /\ \E smp \in 0..MAX_SAMPLES : \E env \in SmpUndoEnvs(smp, SmpRedoBuffer) :
              \E r \in {SmpUndoImpl(B0, "redo", "undo", SmpSamples, SmpBudget, smp, env)} :
                 /\ SmpUndoBuffer' = SmpUntagged(r.B.undo)
                 /\ SmpRedoBuffer' = SmpUntagged(r.B.redo)
                 /\ SmpLedger' = SmpAudit(B0, r.B)
                 /\ SmpSamples' = SmpLive(r.samples)
                 /\ last' = Call("Redo", smp, r.ok, r.why)
                 /\ scen' = IF scen.st = "undone" /\ scen.id = smp
                            THEN [scen EXCEPT !.st = "redone"]
                            ELSE NoScen
    /\ UNCHANGED <<engine, scope, prepares, edits, SmpBudget, patVars, insVars>>

\* The sample after the editor's mutation of the behaviour's kind on the
\* behaviour's range.
SmpMutated(sample) ==
    LET data == SubSeq(sample.pSample.data, 1, sample.nLength)
        lo == Min(scope.start, sample.nLength)
        hi == Min(scope.end, sample.nLength)
        sized(frames) == [sample EXCEPT !.nLength = Len(frames),
                                        !.pSample = IF frames = <<>> THEN NullSample
                                                    ELSE SamplePtr(frames)]
    IN CASE scope.edit \in {"invert", "reverse", "unsign"} ->
              SmpTransform(sample, scope.edit, scope.start, scope.end)
         [] scope.edit = "insert" ->
              sized(SubSeq(data, 1, lo) \o [i \in 1..(scope.end - scope.start) |-> 3]
                    \o SubSeq(data, lo + 1, Len(data)))
         [] scope.edit = "update" ->
              sized([i \in 1..Len(data) |->
                       IF i > lo /\ i <= hi THEN (data[i] + 1) % 4 ELSE data[i]])
         [] scope.edit = "truncate" ->
              sized(SubSeq(data, 1, lo))
         [] scope.edit = "delete" ->
              sized(SubSeq(data, 1, lo) \o SubSeq(data, hi + 1, Len(data)))
         [] scope.edit = "replace" ->
              sized(<<3>>)

\* The editor changes a sample.
SmpEdit ==
    /\ engine = "smp"
    /\ last.why # "crash"
    /\ scope.admin \notin {"rearrange", "flags"}
    /\ edits < MaxEdits
    /\ \E smp \in 1..scope.slots :
         /\ SmpSamples[smp].nLength <= Len(SmpSamples[smp].pSample.data)
         /\ SmpMutated(SmpSamples[smp]) # SmpSamples[smp]
         /\ SmpSamples' = [SmpSamples EXCEPT ![smp] = SmpMutated(@)]
         /\ last' = Call("Edit", smp, TRUE, "ok")
         /\ scen' = IF scen.st = "prepared" /\ scen.id = smp
                    THEN Scen("mutated", smp, LiveData(SmpSamples'[smp]))
                    ELSE NoScen
    /\ edits' = edits + 1
    /\ UNCHANGED <<engine, scope, prepares, SmpUndoBuffer, SmpRedoBuffer, SmpBudget,
                   SmpLedger, patVars, insVars>>

\* CSampleUndo::RemoveLastUndoStep(smp)
SmpRemoveLastUndoStep ==
    /\ engine = "smp"
    /\ last.why # "crash"
    /\ scope.admin = "rearrange"
    /\ \E B0 \in {SmpB} :
         /\ \E smp \in 0..GetNumSamples :
              \E B \in {SmpRemoveLastUndoStepIn(B0, smp)} :
                 /\ SmpUndoBuffer' = SmpUntagged(B.undo)
                 /\ SmpRedoBuffer' = SmpUntagged(B.redo)
                 /\ SmpLedger' = SmpAudit(B0, B)
                 /\ last' = Call("RemoveLastUndoStep", smp, SmpCanUndo(B0, smp), "ok")
    /\ scen' = NoScen
    /\ UNCHANGED <<engine, scope, prepares, edits, SmpSamples, SmpBudget, patVars, insVars>>

\* CSampleUndo::ClearUndo()
SmpClearAll ==
    /\ engine = "smp"
    /\ last.why # "crash"
    /\ scope.admin = "rearrange"
    /\ \E B0 \in {SmpB} :
         /\ \E B \in {SmpClearAllFrom(B0, 1)} :
               /\ SmpUndoBuffer' = SmpUntagged(B.undo)
               /\ SmpRedoBuffer' = SmpUntagged(B.redo)
               /\ SmpLedger' = SmpAudit(B0, B)
    /\ last' = Call("ClearUndo", 0, TRUE, "ok")
    /\ scen' = NoScen
    /\ UNCHANGED <<engine, scope, prepares, edits, SmpSamples, SmpBudget, patVars, insVars>>

\* The mappings the rearrange sample function is called with, as the new
\* index of slot 1, 2, ...: the identity, the swap, the first slot dropped and
\* the second moved up, both slots sent to the same index, an index behind the
\* last sample.
SmpMappingList ==
    <<(<<1, 2>>), (<<2, 1>>), (<<0, 1>>), (<<1, 1>>), (<<1, MAX_SAMPLES>>)>>

\* CSampleUndo::RearrangeSamples(newIndex).  last.id is the position of the
\* mapping in the order of SmpMappingList.
SmpRearrange ==
    /\ engine = "smp"
    /\ last.why # "crash"
    /\ scope.admin = "rearrange"
    /\ \E B0 \in {SmpB} :
         /\ \E m \in 1..Len(SmpMappingList) :
              \E B \in {SmpRearrangeSamples(B0, SmpMappingList[m])} :
                 /\ SmpUndoBuffer' = SmpUntagged(B.undo)
                 /\ SmpRedoBuffer' = SmpUntagged(B.redo)
                 /\ SmpLedger' = SmpAudit(B0, B)
                 /\ last' = Call("Rearrange", m, TRUE, "ok")
    /\ scen' = NoScen
    /\ UNCHANGED <<engine, scope, prepares, edits, SmpSamples, SmpBudget, patVars, insVars>>

\* The user changes the size of the sample undo buffer in the settings.
SmpSetBudget ==
    /\ engine = "smp"
    /\ last.why # "crash"
    /\ scope.admin = "budget"
    /\ \E budget \in {0, BigBudget} \ {SmpBudget} :
         /\ SmpBudget' = budget
         /\ last' = Call("SetBudget", budget, TRUE, "ok")
    /\ scen' = NoScen
    /\ UNCHANGED <<engine, scope, prepares, edits, SmpSamples, SmpUndoBuffer,
                   SmpRedoBuffer, SmpLedger, patVars, insVars>>

\* The editor changes the flags of sample 1: the sample is saved or edited, it
\* is kept on disk or no longer.
SmpSetFlags ==
    /\ engine = "smp"
    /\ last.why # "crash"
    /\ scope.admin = "flags"
    /\ edits < MaxEdits
    /\ \E keepOnDisk \in BOOLEAN : \E modified \in BOOLEAN :
         /\ <<keepOnDisk, modified>> # <<SmpSamples[1].keepOnDisk, SmpSamples[1].modified>>
         /\ SmpSamples' = [SmpSamples EXCEPT ![1].keepOnDisk = keepOnDisk,
                                              ![1].modified = modified]
         /\ last' = Call("SetFlags", 1, TRUE, "ok")
    /\ edits' = edits + 1
    /\ scen' = NoScen
    /\ UNCHANGED <<engine, scope, prepares, SmpUndoBuffer, SmpRedoBuffer, SmpBudget,
                   SmpLedger, patVars, insVars>>

SmpNext ==
    \/ SmpPrepareUndo \/ SmpUndo \/ SmpRedo \/ SmpEdit
    \/ SmpRemoveLastUndoStep \/ SmpClearAll \/ SmpRearrange \/ SmpSetBudget
    \/ SmpSetFlags

\* Two samples of two frames each, edited since they were loaded; where the
\* behaviour is about the flags, kept on disk and not edited.  No history.
SmpInit ==
    /\ SmpSamples = [smp \in SmpIds |->
                       [nLength |-> 2,
                        pSample |-> SamplePtr(IF smp = 1 THEN <<0, 1>> ELSE <<1, 0>>),
                        keepOnDisk |-> (engine = "smp" /\ scope.admin = "flags"),
                        modified |-> ~(engine = "smp" /\ scope.admin = "flags")]]
    /\ SmpUndoBuffer = <<>>
    /\ SmpRedoBuffer = <<>>
    /\ SmpBudget = IF engine = "smp" THEN scope.budget ELSE BigBudget
    /\ SmpLedger = [lost |-> FALSE, twice |-> FALSE]

\* ======================================================================
\* Instrument undo (CInstrumentUndo)
\* ======================================================================

MAX_INSTRUMENTS == 3
ENV_MAXTYPES == 1

InsIds == 1..(MAX_INSTRUMENTS - 1)

\* Values an envelope or the keyboard map takes in this model.
InsValues == {0, 1}

nullptr == [env |-> <<>>, Keyboard |-> -1]

\* A default-constructed ModInstrument (UndoInfo::instr before it is filled in).
DefaultInstrument == [env |-> [t \in 1..ENV_MAXTYPES |-> 0], Keyboard |-> 0]

\* ModInstrument::GetEnvelope(envType) = value, on record instr
SetEnvelope(instr, envType, value) == [instr EXCEPT !.env[envType + 1] = value]

\* CInstrumentUndo::InstrumentBufferExists
InstrumentBufferExists(buffer, ins) ==
    IF ins = 0 \/ ins >= MAX_INSTRUMENTS THEN FALSE
    ELSE ins <= Len(buffer)

\* CInstrumentUndo::PrepareBuffer.  Returns [ok, why, buffer]: the return value,
\* the path taken and the buffer as the call leaves it.
InsPrepareBuffer(buffer, instruments, ins, envType) ==
    IF ins = 0 \/ ins >= MAX_INSTRUMENTS THEN [ok |-> FALSE, why |-> "id", buffer |-> buffer]
    ELSE IF instruments[ins] = nullptr THEN [ok |-> FALSE, why |-> "absent", buffer |-> buffer]
    ELSE
      LET grown == GrowTo(buffer, ins)
          insBuffer == grown[ins]
          kept == IF Len(insBuffer) >= MAX_UNDO_LEVEL
                  THEN DropFirst(insBuffer, Len(insBuffer) - MAX_UNDO_LEVEL + 1)
                  ELSE insBuffer
          undo == [editedEnvelope |-> envType,
                   instr |-> IF envType < ENV_MAXTYPES
                             THEN SetEnvelope(DefaultInstrument, envType,
                                              instruments[ins].env[envType + 1])
                             ELSE instruments[ins]]
      IN [ok |-> TRUE, why |-> IF kept = insBuffer THEN "ok" ELSE "evict",
          buffer |-> [grown EXCEPT ![ins] = Append(kept, undo)]]

\* CInstrumentUndo::ClearUndo(buffer, ins)
InsClearUndoIn(buffer, ins) ==
    IF ~InstrumentBufferExists(buffer, ins) THEN buffer
    ELSE [buffer EXCEPT ![ins] = <<>>]

\* CInstrumentUndo::DeleteStep (step is 1-based here)
InsDeleteStep(buffer, ins, step) ==
    IF ~InstrumentBufferExists(buffer, ins) \/ step > Len(buffer[ins]) THEN buffer
    ELSE [buffer EXCEPT ![ins] = SubSeq(@, 1, step - 1) \o SubSeq(@, step + 1, Len(@))]

\* CInstrumentUndo::ClearUndo(ins): the slot's undo and redo history; B holds
\* UndoBuffer and RedoBuffer.
InsClearUndo(B, ins) ==
    [undo |-> InsClearUndoIn(B.undo, ins), redo |-> InsClearUndoIn(B.redo, ins)]

\* CInstrumentUndo::CanUndo(ins)
InsCanUndo(buffer, ins) == InstrumentBufferExists(buffer, ins) /\ buffer[ins] # <<>>

\* CSoundFile::GetNumInstruments of the document (its last slot may be empty).
GetNumInstruments == MAX_INSTRUMENTS - 1

\* The loop of CInstrumentUndo::RearrangeInstruments(buffer, newIndex) from slot
\* ins on; newIndex[i] is the new index of slot i, the vector's element 0 is
\* not part of the sequence.
RECURSIVE InsRearrangeLoop(_, _, _, _, _, _)
InsRearrangeLoop(B, dir, newIndex, newBuf, ins, oldSize) ==
    IF ins > oldSize THEN [B EXCEPT ![dir] = newBuf]
    ELSE IF /\ ins < Len(newIndex) + 1
            /\ newIndex[ins] > 0
            /\ newIndex[ins] <= GetNumInstruments
    THEN InsRearrangeLoop(B, dir, newIndex,
                          [newBuf EXCEPT ![newIndex[ins]] = B[dir][ins]], ins + 1, oldSize)
    ELSE InsRearrangeLoop(InsClearUndo(B, ins), dir, newIndex, newBuf, ins + 1, oldSize)

\* CInstrumentUndo::RearrangeInstruments(buffer, newIndex) on buffer B[dir].
InsRearrangeIn(B, dir, newIndex) ==
    InsRearrangeLoop(B, dir, newIndex, [i \in 1..GetNumInstruments |-> <<>>], 1,
                     Len(B[dir]))

\* CInstrumentUndo::RearrangeInstruments(newIndex): the undo buffer, then the
\* redo buffer.
InsRearrangeInstruments(B, newIndex) ==
    InsRearrangeIn(InsRearrangeIn(B, "undo", newIndex), "redo", newIndex)

\* Undo without line 739: the state being replaced is not captured.
InsUndoImplNoMirror(fromBuf, toBuf, instruments, ins) ==
    IF instruments[ins] = nullptr \/ ~InstrumentBufferExists(fromBuf, ins)
    THEN [ok |-> FALSE, fromBuf |-> fromBuf, toBuf |-> toBuf, instruments |-> instruments]
    ELSE IF fromBuf[ins] = <<>>
    THEN [ok |-> FALSE, fromBuf |-> fromBuf, toBuf |-> toBuf, instruments |-> instruments]
    ELSE
      LET undo == fromBuf[ins][Len(fromBuf[ins])]
          instr == IF undo.editedEnvelope < ENV_MAXTYPES
                   THEN SetEnvelope(instruments[ins], undo.editedEnvelope,
                                    undo.instr.env[undo.editedEnvelope + 1])
                   ELSE undo.instr
      IN [ok |-> TRUE,
          fromBuf |-> InsDeleteStep(fromBuf, ins, Len(fromBuf[ins])),
          toBuf |-> toBuf,
          instruments |-> [instruments EXCEPT ![ins] = instr]]

\* CInstrumentUndo::Undo(fromBuf, toBuf, ins).  Returns [ok, fromBuf, toBuf,
\* instruments].
InsUndoImpl(fromBuf, toBuf, instruments, ins) ==
    IF instruments[ins] = nullptr \/ ~InstrumentBufferExists(fromBuf, ins)
       \/ fromBuf[ins] = <<>>
    THEN [ok |-> FALSE, fromBuf |-> fromBuf, toBuf |-> toBuf, instruments |-> instruments]
    ELSE
      LET undo == fromBuf[ins][Len(fromBuf[ins])]
          prep == InsPrepareBuffer(toBuf, instruments, ins, undo.editedEnvelope)
          instr == IF undo.editedEnvelope < ENV_MAXTYPES
                   THEN SetEnvelope(instruments[ins], undo.editedEnvelope,
                                    undo.instr.env[undo.editedEnvelope + 1])
                   ELSE undo.instr
      IN [ok |-> TRUE,
          fromBuf |-> InsDeleteStep(fromBuf, ins, Len(fromBuf[ins])),
          toBuf |-> prep.buffer,
          instruments |-> [instruments EXCEPT ![ins] = instr]]

\* ---- actions

\* CInstrumentUndo::PrepareUndo with every id, valid or not, and every selector.
InsPrepareUndo ==
    /\ engine = "ins"
    /\ prepares < MaxPrepares
    /\ \E ins \in 0..MAX_INSTRUMENTS, envType \in 0..ENV_MAXTYPES :
         \E r \in {InsPrepareBuffer(InsUndoBuffer, InsInstruments, ins, envType)} :
            /\ InsUndoBuffer' = r.buffer
            /\ InsRedoBuffer' = IF r.ok THEN InsClearUndoIn(InsRedoBuffer, ins)
                                ELSE InsRedoBuffer
            /\ last' = Call("PrepareUndo", ins, r.ok, r.why)
            /\ prepares' = IF r.ok THEN prepares + 1 ELSE prepares
    /\ scen' = NoScen
    /\ UNCHANGED <<engine, scope, edits, InsInstruments, patVars, smpVars>>

\* Instruments[0] is never used by the document: it is a null pointer.
InsArray == [i \in 0..(MAX_INSTRUMENTS - 1) |-> IF i = 0 THEN nullptr ELSE InsInstruments[i]]

\* CInstrumentUndo::Undo(ins).  scen stacks the instrument as it was before
\* each of a run of undos of the same instrument.
InsUndo ==
    /\ engine = "ins"
    /\ \E ins \in 0..(MAX_INSTRUMENTS - 1) :
         \E r \in {InsUndoImpl(InsUndoBuffer, InsRedoBuffer, InsArray, ins)},
            run \in {IF scen.id = ins /\ scen.st \in {"undone", "redone"}
                     THEN scen.snaps ELSE <<>>} :
            /\ InsUndoBuffer' = r.fromBuf
            /\ InsRedoBuffer' = r.toBuf
            /\ InsInstruments' = [i \in InsIds |-> r.instruments[i]]
            /\ last' = Call("Undo", ins, r.ok, IF r.ok THEN "ok" ELSE "empty")
            /\ scen' = IF ~r.ok THEN NoScen
                       ELSE [st |-> "undone", id |-> ins,
                             snaps |-> Append(run, InsArray[ins]),
                             k |-> IF Len(run) + 1 > scen.k THEN Len(run) + 1 ELSE scen.k,
                             expect |-> nullptr]
    /\ UNCHANGED <<engine, scope, prepares, edits, patVars, smpVars>>

\* CInstrumentUndo::Redo(ins).  A redo that follows the run of undos takes the
\* newest snapshot off scen: the instrument the redo has to bring back.
InsRedo ==
    /\ engine = "ins"
    /\ \E ins \in 0..(MAX_INSTRUMENTS - 1) :
         \E r \in {InsUndoImpl(InsRedoBuffer, InsUndoBuffer, InsArray, ins)} :
            /\ InsRedoBuffer' = r.fromBuf
            /\ InsUndoBuffer' = r.toBuf
            /\ InsInstruments' = [i \in InsIds |-> r.instruments[i]]
            /\ last' = Call("Redo", ins, r.ok, IF r.ok THEN "ok" ELSE "empty")
            /\ scen' = IF scen.id = ins /\ scen.snaps # <<>>
                       THEN [st |-> "redone", id |-> ins, snaps |-> PopBack(scen.snaps),
                             k |-> scen.k, expect |-> scen.snaps[Len(scen.snaps)]]
                       ELSE NoScen
    /\ UNCHANGED <<engine, scope, prepares, edits, patVars, smpVars>>

\* The editor changes one envelope or the keyboard map of an instrument.
InsEdit ==
    /\ engine = "ins"
    /\ scope.admin = "none"
    /\ \E ins \in InsIds, field \in 0..ENV_MAXTYPES, value \in InsValues :
         /\ InsInstruments[ins] # nullptr
         /\ InsInstruments' =
              [InsInstruments EXCEPT ![ins] =
                 IF field < ENV_MAXTYPES THEN SetEnvelope(@, field, value)
                 ELSE [@ EXCEPT !.Keyboard = value]]
         /\ InsInstruments' # InsInstruments
         /\ last' = Call("Edit", ins, TRUE, "ok")
    /\ edits < MaxInsEdits
    /\ edits' = edits + 1
    /\ scen' = NoScen
    /\ UNCHANGED <<engine, scope, prepares, InsUndoBuffer, InsRedoBuffer, patVars, smpVars>>

\* CInstrumentUndo::RemoveLastUndoStep(ins)
InsRemoveLastUndoStep ==
    /\ engine = "ins"
    /\ scope.admin = "rearrange"
    /\ \E ins \in 0..MAX_INSTRUMENTS :
         /\ InsUndoBuffer' = IF InsCanUndo(InsUndoBuffer, ins)
                             THEN InsDeleteStep(InsUndoBuffer, ins,
                                                Len(InsUndoBuffer[ins]))
                             ELSE InsUndoBuffer
         /\ last' = Call("RemoveLastUndoStep", ins, InsCanUndo(InsUndoBuffer, ins), "ok")
    /\ scen' = NoScen
    /\ UNCHANGED <<engine, scope, prepares, edits, InsInstruments, InsRedoBuffer,
                   patVars, smpVars>>

\* The mappings the rearrange instrument function is called with, as the new
\* index of slot 1, 2, ...: the identity, the swap, one slot dropped with or
\* without the other moving up, both slots sent to the same index.
InsMappingList == <<(<<1, 2>>), (<<2, 1>>), (<<0, 1>>), (<<1, 0>>), (<<1, 1>>)>>

\* CInstrumentUndo::RearrangeInstruments(newIndex).  last.id is the position of
\* the mapping in InsMappingList.
InsRearrange ==
    /\ engine = "ins"
    /\ scope.admin = "rearrange"
    /\ \E m \in 1..Len(InsMappingList) :
         \E B \in {InsRearrangeInstruments([undo |-> InsUndoBuffer, redo |-> InsRedoBuffer],
                                           InsMappingList[m])} :
            /\ InsUndoBuffer' = B.undo
            /\ InsRedoBuffer' = B.redo
            /\ last' = Call("Rearrange", m, TRUE, "ok")
    /\ scen' = NoScen
    /\ UNCHANGED <<engine, scope, prepares, edits, InsInstruments, patVars, smpVars>>

InsNext ==
    \/ InsPrepareUndo \/ InsUndo \/ InsRedo \/ InsEdit
    \/ InsRemoveLastUndoStep \/ InsRearrange

\* What one behaviour does to the instruments: the editor changes them, or
\* it rearranges them and takes undo steps back.
InsScopes == {[admin |-> "none"], [admin |-> "rearrange"]}

\* A document with one instrument in slot 1; slot 2 holds none.
InsInit ==
    /\ InsInstruments = [i \in InsIds |-> IF i = 1 THEN DefaultInstrument ELSE nullptr]
    /\ InsUndoBuffer = <<>>
    /\ InsRedoBuffer = <<>>

\* ======================================================================
\* Specifications
\* ======================================================================

Init ==
    /\ engine \in {"pat", "smp", "ins"}
    /\ prepares = 0
    /\ edits = 0
    /\ last = NoCall
    /\ scen = NoScen
    /\ scope \in (IF engine = "pat" THEN PatScopes
                  ELSE IF engine = "smp" THEN SmpScopes ELSE InsScopes)
    /\ PatInit
    /\ SmpInit
    /\ InsInit

Next == PatNext \/ SmpNext \/ InsNext

Spec == Init /\ [][Next]_vars

InitPattern == engine = "pat" /\ Init

SpecPattern == InitPattern /\ [][PatNext]_vars

InitSample == engine = "smp" /\ Init

SpecSample == InitSample /\ [][SmpNext]_vars

InitInstrument == engine = "ins" /\ Init

SpecInstrument == InitInstrument /\ [][InsNext]_vars

\* ======================================================================
\* Properties
\* ======================================================================

\* The stacks of the entities ids are the same in two buffers, whatever the
\* number of slots the buffers have.
SameStacks(ids, old, new) == \A id \in ids : StackOf(old, id) = StackOf(new, id)

\* A step leaves every undo and every redo stack of the three engines as it was.
StacksUnchanged ==
    /\ PatUndoBuffer' = PatUndoBuffer
    /\ PatRedoBuffer' = PatRedoBuffer
    /\ SameStacks(SmpIds, SmpUndoBuffer, SmpUndoBuffer')
    /\ SameStacks(SmpIds, SmpRedoBuffer, SmpRedoBuffer')
    /\ SameStacks(InsIds, InsUndoBuffer, InsUndoBuffer')
    /\ SameStacks(InsIds, InsRedoBuffer, InsRedoBuffer')

\* The redo stack of entity id of the engine under test, given the three redo
\* buffers.
RedoStackOf(patRedo, smpRedo, insRedo, id) ==
    IF engine = "pat" THEN patRedo
    ELSE IF engine = "smp" THEN StackOf(smpRedo, id)
    ELSE StackOf(insRedo, id)

\* The number of records on top of the pattern buffer that are linked to the
\* record below them.
RECURSIVE PatLinkedOnTop(_)
PatLinkedOnTop(buffer) ==
    IF buffer = <<>> THEN 0
    ELSE IF buffer[Len(buffer)].linkToPrevious THEN 1 + PatLinkedOnTop(PopBack(buffer))
    ELSE 0

\* C1: sample undo/redo duality.  After PrepareUndo(kind, range) on a sample,
\* a mutation of that sample and an Undo(smp) that returned true, an immediate
\* Redo(smp) leaves the sample's length and frames exactly as they were after
\* the mutation.
C1_SampleRedoRestores ==
    (engine = "smp" /\ scen.st = "redone" /\ last.why # "crash")
        => LiveData(SmpSamples[scen.id]) = scen.expect

\* C2: pattern undo/redo duality.  After PrepareUndo(rectangle) on a pattern, a
\* mutation of that pattern (a cell edit inside the rectangle, a resize or the
\* deletion of the pattern) and an Undo() that returned the pattern, an
\* immediate Redo() leaves the pattern grid (row count and every cell) exactly
\* as it was after the mutation.
C2_PatternRedoRestores ==
    (engine = "pat" /\ scen.st = "redone") => PatDoc.pats[scen.id] = scen.expect

\* C3: instrument undo/redo duality over sequences.  In a run of undos of one
\* instrument followed by redos, every redo brings the instrument back to what
\* it was before the undo it reverts: one undo followed by one redo restores
\* the state before the undo, and k undos followed by k redos restore the
\* state after the k-th mutation.
C3_InstrumentDuality ==
    (engine = "ins" /\ scen.st = "redone") => InsInstruments[scen.id] = scen.expect

\* C3 witness: two mutations, two undos and two redos of one instrument, with
\* an envelope record and a whole-instrument record back on the undo stack.
C3_Witness ==
    /\ engine = "ins"
    /\ scen.st = "redone"
    /\ scen.k >= 2
    /\ scen.snaps = <<>>
    /\ edits >= 2
    /\ last.ok
    /\ InsInstruments[scen.id] # DefaultInstrument
    /\ {InsUndoBuffer[scen.id][i].editedEnvelope : i \in 1..Len(InsUndoBuffer[scen.id])}
         = 0..ENV_MAXTYPES

\* C4: linked-group atomicity.  When the records on top of the pattern undo
\* stack form a chain of N records (linkToPrevious set on records 2..N, clear
\* on record 1), one call of Undo() leaves the undo stack exactly N records
\* shorter.
C4_ChainUndoneAtOnce ==
    [][(/\ engine = "pat"
        /\ last'.op = "Undo"
        /\ last'.why # "crash"
        /\ PatLinkedOnTop(PatUndoBuffer) < Len(PatUndoBuffer))
       => Len(PatUndoBuffer') = Len(PatUndoBuffer) - (PatLinkedOnTop(PatUndoBuffer) + 1)]_vars

\* C5: entry-count cap.  The pattern undo and redo stacks and every sample's
\* and instrument's undo and redo stack hold at most MAX_UNDO_LEVEL records in
\* every reachable state, and a PrepareUndo that fails has failed for an
\* invalid id, an absent entity, an invalid range, disabled sample undo or
\* lack of memory, never because the stack was full.
C5_EntryCap ==
    /\ Len(PatUndoBuffer) <= MAX_UNDO_LEVEL
    /\ Len(PatRedoBuffer) <= MAX_UNDO_LEVEL
    /\ \A smp \in SmpIds :
         /\ Len(StackOf(SmpUndoBuffer, smp)) <= MAX_UNDO_LEVEL
         /\ Len(StackOf(SmpRedoBuffer, smp)) <= MAX_UNDO_LEVEL
    /\ \A ins \in InsIds :
         /\ Len(StackOf(InsUndoBuffer, ins)) <= MAX_UNDO_LEVEL
         /\ Len(StackOf(InsRedoBuffer, ins)) <= MAX_UNDO_LEVEL
    /\ (last.op = "PrepareUndo" /\ ~last.ok)
         => last.why \in {"id", "absent", "range", "disabled", "alloc"}

\* C5 witness: a sample PrepareUndo on a full stack has succeeded by removing
\* the oldest record.
C5_Witness ==
    /\ engine = "smp"
    /\ last.op = "PrepareUndo"
    /\ last.ok
    /\ last.why = "evict"
    /\ Len(StackOf(SmpUndoBuffer, last.id)) = MAX_UNDO_LEVEL

\* C6: sample byte budget.  After every sample PrepareUndo, Undo or Redo that
\* has returned, the payload bytes of all records of all samples on both
\* buffers add up to at most the configured budget.
C6_ByteBudget ==
    (engine = "smp" /\ last.op \in {"PrepareUndo", "Undo", "Redo"} /\ last.why # "crash")
        => GetBufferCapacity(SmpUndoBuffer) + GetBufferCapacity(SmpRedoBuffer)
             <= SmpBudget

\* C7: a new edit invalidates the future.  After a successful PrepareUndo the
\* redo stack of the entity is empty, and a PrepareUndo that returns failure
\* leaves the redo stack of the entity as it was.
C7_EditInvalidatesRedo ==
    [][last'.op = "PrepareUndo"
       => IF last'.ok
          THEN RedoStackOf(PatRedoBuffer', SmpRedoBuffer', InsRedoBuffer', last'.id) = <<>>
          ELSE RedoStackOf(PatRedoBuffer', SmpRedoBuffer', InsRedoBuffer', last'.id)
                 = RedoStackOf(PatRedoBuffer, SmpRedoBuffer, InsRedoBuffer, last'.id)]_vars

\* C8: validation failure is all-or-nothing.  A PrepareUndo of any engine that
\* fails for an invalid id, an absent entity or an invalid range leaves every
\* undo and redo stack as it was.
C8_ValidationAllOrNothing ==
    [][(last'.op = "PrepareUndo" /\ last'.why \in {"id", "absent", "range"})
       => StacksUnchanged]_vars

\* C9: undo/redo failure atomicity.  A sample or pattern Undo or Redo that
\* reports failure has popped no record and pushed no record.
C9_FailedUndoTouchesNothing ==
    [][(/\ engine \in {"pat", "smp"}
        /\ last'.op \in {"Undo", "Redo"}
        /\ ~last'.ok
        /\ last'.why # "crash")
       => StacksUnchanged]_vars

\* C10: allocation failure during capture.  A pattern or sample PrepareUndo
\* whose payload allocation fails returns failure and leaves every undo and
\* redo stack as it was.
C10_AllocFailureTouchesNothing ==
    [][(last'.op = "PrepareUndo" /\ last'.why = "alloc")
       => (~last'.ok /\ StacksUnchanged)]_vars

\* C11: every payload buffer is released exactly once.  No call of the sample
\* engine that returns loses a buffer a record owned (neither freed nor
\* installed as live sample data, yet owned by no record any more), and none
\* frees a buffer twice, frees one it installs or one a record still owns.
C11_ReleasedExactlyOnce ==
    (engine = "smp" /\ last.why # "crash")
        => (~SmpLedger.lost /\ ~SmpLedger.twice)

\* C12: stored sample ranges are well-formed.  Every record on a sample undo
\* or redo stack has 0 <= changeStart <= changeEnd <= the length of the header
\* it captured, and a record that owns a payload owns exactly
\* changeEnd - changeStart frames; so no record is stored for a range that
\* ends beyond the sample's length.
C12_RangesWellFormed ==
    engine = "smp" =>
        \A buffer \in {SmpUndoBuffer, SmpRedoBuffer} :
            \A smp \in 1..Len(buffer) : \A i \in 1..Len(buffer[smp]) :
                LET step == buffer[smp][i]
                IN /\ 0 <= step.changeStart
                   /\ step.changeStart <= step.changeEnd
                   /\ step.changeEnd <= step.OldSample.nLength
                   /\ step.samplePtr.null
                         \/ Len(step.samplePtr.data) = step.changeEnd - step.changeStart

\* The stack new is the stack old without some of its oldest records, with
\* one record of the given kind and range on top.
GainsRecord(old, new, kind, start, end) ==
    /\ new # <<>>
    /\ new[Len(new)].changeType = kind
    /\ new[Len(new)].changeStart = start
    /\ new[Len(new)].changeEnd = end
    /\ \E n \in 0..Len(old) : PopBack(new) = DropFirst(old, n)

\* C13: undo of a delete record.  When Undo(smp) returns true on a record of
\* kind delete with range [s,e) captured at length L while the live sample has
\* L-(e-s) frames, the live sample has L frames afterwards, frames [0,s) and
\* [e,L) are the live frames [0,s) and [s,L-(e-s)) from before, and frames
\* [s,e) are the payload.  Whatever the kind of the record undone, the redo
\* stack of the sample gains a record of the same range, of kind insert for a
\* delete record, delete for an insert record, and the same kind otherwise.
C13_UndoOfDelete ==
    [][(engine = "smp" /\ last'.op = "Undo" /\ last'.ok)
        => LET smp == last'.id
               undo == SmpUndoBuffer[smp][Len(SmpUndoBuffer[smp])]
               s == undo.changeStart
               e == undo.changeEnd
               L == undo.OldSample.nLength
               before == LiveData(SmpSamples[smp])
               after == LiveData(SmpSamples'[smp])
           IN /\ (/\ undo.changeType = "delete"
                   /\ SmpSamples[smp].nLength = L - (e - s)
                   /\ SmpSamples[smp].nLength <= Len(SmpSamples[smp].pSample.data))
                  => /\ after.nLength = L
                     /\ \A i \in 1..L :
                           after.data[i] = IF i <= s THEN before.data[i]
                                           ELSE IF i <= e THEN undo.samplePtr.data[i - s]
                                           ELSE before.data[i - (e - s)]
              /\ GainsRecord(StackOf(SmpRedoBuffer, smp), StackOf(SmpRedoBuffer', smp),
                             IF undo.changeType = "delete" THEN "insert"
                             ELSE IF undo.changeType = "insert" THEN "delete"
                             ELSE undo.changeType,
                             s, e)]_vars

\* C14: self-inverse kinds.  After PrepareUndo of kind invert, reverse or
\* unsign, the mutation, an Undo that returned true and the Redo that follows
\* it at once and returns true, the live sample has the length and frames it
\* had before the Undo, and no record of the sample on either stack owns a
\* payload buffer.
C14_SelfInverse ==
    (/\ engine = "smp"
     /\ scope.kind \in {"invert", "reverse", "unsign"}
     /\ scen.st = "redone"
     /\ last.ok)
        => /\ LiveData(SmpSamples[scen.id]) = scen.expect
           /\ \A buffer \in {SmpUndoBuffer, SmpRedoBuffer} :
                 \A i \in 1..Len(StackOf(buffer, scen.id)) :
                    buffer[scen.id][i].samplePtr.null

\* A reversed sample was put back in order by Undo and reversed again by Redo.
C14_Witness ==
    /\ engine = "smp"
    /\ scope.kind = "reverse"
    /\ scen.st = "redone"
    /\ last.op = "Redo"
    /\ last.ok
    /\ LiveData(SmpSamples[scen.id]).data = <<1, 0>>
    /\ StackOf(SmpUndoBuffer, scen.id) # <<>>

\* C15: pattern restore stays in bounds.  Where every record is captured
\* without channel settings, no Undo or Redo writes a cell outside the live
\* grid, also when the pattern has fewer rows than firstRow + numRows of the
\* record or the document fewer channels than firstChannel + numChannels.
C15_RestoreInBounds ==
    (engine = "pat" /\ ~scope.storeChannelInfo /\ last.op \in {"Undo", "Redo"})
        => last.why # "crash"

\* C16: rearrangement stability.  A rearrange call of the pattern, sample or
\* instrument history with the identity mapping leaves every undo and every
\* redo stack with the same records in the same order under the same entity
\* index.  (The identity is the first mapping of each engine's list.)
C16_IdentityRearrange ==
    [][(last'.op = "Rearrange" /\ last'.id = 1) => StacksUnchanged]_vars

\* The samples were rearranged with the identity while slot 2 had undo history
\* and slot 1 redo history.
C16_Witness ==
    /\ engine = "smp"
    /\ last.op = "Rearrange"
    /\ last.id = 1
    /\ SmpMappingList[last.id] = <<1, 2>>
    /\ StackOf(SmpUndoBuffer, 1) # <<>>
    /\ StackOf(SmpUndoBuffer, 2) # <<>>
    /\ StackOf(SmpRedoBuffer, 1) # <<>>

\* The stacks the buffer new has to hold after the slots of old were
\* rearranged by newIndex among count slots: at every index the stack of the
\* old slot sent there, and nothing where no slot was sent.
Reindexed(old, new, newIndex, count) ==
    \A j \in 1..count :
        LET from == {s \in 1..Len(newIndex) : newIndex[s] = j}
        IN StackOf(new, j) = IF from = {} THEN <<>>
                             ELSE StackOf(old, CHOOSE s \in from : TRUE)

\* No two slots are sent to the same new index.
OneToOne(newIndex, count) ==
    \A s, t \in 1..Len(newIndex) :
        (s # t /\ newIndex[s] = newIndex[t]) => newIndex[s] \notin 1..count

\* C17: rearrangement preserves surviving histories.  After the samples (or
\* the instruments) were rearranged by a mapping that sends no two slots to
\* the same index, the undo stack and the redo stack at the new index of
\* every surviving slot are the stacks the slot held before, and no history is
\* left of a slot whose new index is 0 or out of range: clearing a dropped
\* slot removes no record of a surviving one.
C17_RearrangePreserves ==
    [][(last'.op = "Rearrange" /\ engine \in {"smp", "ins"})
        => LET newIndex == IF engine = "smp" THEN SmpMappingList[last'.id]
                           ELSE InsMappingList[last'.id]
               count == IF engine = "smp" THEN GetNumSamples ELSE GetNumInstruments
           IN OneToOne(newIndex, count)
              => IF engine = "smp"
                 THEN /\ Reindexed(SmpUndoBuffer, SmpUndoBuffer', newIndex, count)
                      /\ Reindexed(SmpRedoBuffer, SmpRedoBuffer', newIndex, count)
                 ELSE /\ Reindexed(InsUndoBuffer, InsUndoBuffer', newIndex, count)
                      /\ Reindexed(InsRedoBuffer, InsRedoBuffer', newIndex, count)]_vars

\* C18: budget zero disables sample capture.  While the sample memory budget
\* is 0, every sample PrepareUndo returns false and does nothing: no record is
\* pushed, none is evicted, no buffer is resized or cleared, and the redo
\* stacks are as they were.
C18_BudgetZeroDisables ==
    [][(engine = "smp" /\ last'.op = "PrepareUndo" /\ SmpBudget = 0)
        => /\ ~last'.ok
           /\ SmpUndoBuffer' = SmpUndoBuffer
           /\ SmpRedoBuffer' = SmpRedoBuffer
           /\ SmpSamples' = SmpSamples]_vars

\* PrepareUndo was refused on a sample that has undo and redo history, after
\* the budget was set to 0.
C18_Witness ==
    /\ engine = "smp"
    /\ SmpBudget = 0
    /\ last.op = "PrepareUndo"
    /\ last.id = 1
    /\ ~last.ok
    /\ last.why = "disabled"
    /\ StackOf(SmpUndoBuffer, 1) # <<>>
    /\ StackOf(SmpRedoBuffer, 1) # <<>>

\* The stack new is the stack old with exactly n more records on top, the
\* lowest of them not linked and the others linked to the record below them.
GainsChain(old, new, n) ==
    /\ Len(new) = Len(old) + n
    /\ SubSeq(new, 1, Len(old)) = old
    /\ PatLinkedOnTop(new) = n - 1

\* C19: linked groups re-apply as one unit.  When the top N records of the
\* pattern undo stack form a chain (linkToPrevious set on records 2..N, clear
\* on record 1), one Undo() leaves exactly N more records on the redo stack,
\* linked so that one Redo() processes exactly those N; and one Redo() of such
\* a chain of N leaves the undo stack with N more records that form a chain
\* again, so that Undo and Redo of the group can alternate, each call moving
\* exactly N records.
C19_ChainReappliesAsUnit ==
    [][(engine = "pat" /\ last'.op \in {"Undo", "Redo"} /\ last'.why # "crash")
        => LET from == IF last'.op = "Undo" THEN PatUndoBuffer ELSE PatRedoBuffer
               fromAfter == IF last'.op = "Undo" THEN PatUndoBuffer' ELSE PatRedoBuffer'
               to == IF last'.op = "Undo" THEN PatRedoBuffer ELSE PatUndoBuffer
               toAfter == IF last'.op = "Undo" THEN PatRedoBuffer' ELSE PatUndoBuffer'
               n == PatLinkedOnTop(from) + 1
           IN (1 <= PatLinkedOnTop(from) /\ PatLinkedOnTop(from) < Len(from))
                 => /\ fromAfter = SubSeq(from, 1, Len(from) - n)
                    /\ GainsChain(to, toAfter, n)]_vars

\* What one sweep of RestrictBufferSize(buffer, capacity) under the budget
\* limit has to do to buffer: every stack loses only its oldest records, and
\* of buffer-bearing records at most one, the last of the records it loses;
\* capacity goes down by the bytes of the records removed; and a slot keeps
\* all its buffer-bearing records only where it has none or the budget is no
\* longer exceeded.
SweepIsFair(buffer, capacity, limit) ==
    LET r == RestrictSweep(buffer, capacity, 1, limit)
        gone(smp) == Len(buffer[smp]) - Len(r.buffer[smp])
        lost(smp) == {i \in 1..gone(smp) : ~buffer[smp][i].samplePtr.null}
    IN /\ Len(r.buffer) = Len(buffer)
       /\ \A smp \in 1..Len(buffer) :
            /\ gone(smp) >= 0
            /\ r.buffer[smp] = DropFirst(buffer[smp], gone(smp))
            /\ lost(smp) \subseteq {gone(smp)}
            /\ gone(smp) > 0 => lost(smp) # {}
            /\ (gone(smp) = 0 /\ Bearing(<<buffer[smp]>>) # {}) => r.capacity <= limit
       /\ r.capacity = capacity - SeqSum([smp \in 1..Len(buffer) |->
                           SeqSum([i \in 1..gone(smp) |-> StepBytes(buffer[smp][i])])])

\* C20: eviction is FIFO and round-robin.  Whatever the budget is set to, a
\* sweep of the byte-budget eviction over the undo stacks or over the redo
\* stacks removes records only from the oldest end of a stack, removes at most
\* one buffer-bearing record of a slot before it moves on to the next slot,
\* and leaves no slot with all its buffer-bearing records while the budget is
\* still exceeded: no slot is drained while another one is spared.
C20_EvictionRoundRobin ==
    engine = "smp" =>
        LET undo == GetBufferCapacity(SmpUndoBuffer)
            redo == GetBufferCapacity(SmpRedoBuffer)
        IN /\ \A limit \in 0..(undo + redo) :
                 SweepIsFair(SmpUndoBuffer, undo + redo, limit)
           /\ \A capacity \in redo..(undo + redo) : \A limit \in 0..capacity :
                 SweepIsFair(SmpRedoBuffer, capacity, limit)

\* Slot 1 holds two buffer-bearing undo records and slot 2 one: a sweep under
\* budget 0 takes the older record of slot 1 and the record of slot 2, and
\* leaves the younger record of slot 1 for the next sweep.
C20_Witness ==
    /\ engine = "smp"
    /\ Len(SmpUndoBuffer) = 2
    /\ LET r == RestrictSweep(SmpUndoBuffer, GetBufferCapacity(SmpUndoBuffer), 1, 0)
       IN /\ Cardinality(Bearing(<<SmpUndoBuffer[1]>>)) = 2
          /\ Cardinality(Bearing(<<SmpUndoBuffer[2]>>)) = 1
          /\ r.buffer[1] = <<SmpUndoBuffer[1][2]>>
          /\ r.buffer[2] = <<>>
          /\ r.capacity > 0

\* The bytes of the payload buffers the records of the two buffers own.
PayloadBytes(B) ==
    LET bytes(buffer) ==
            SeqSum([smp \in 1..Len(buffer) |->
                      SeqSum([i \in 1..Len(buffer[smp]) |->
                                IF buffer[smp][i].samplePtr.null THEN 0
                                ELSE Len(buffer[smp][i].samplePtr.data) * GetBytesPerSample])])
    IN bytes(B.undo) + bytes(B.redo)

\* The number of records of the two buffers that own a payload buffer.
BearingCount(B) == Cardinality(Bearing(B.undo)) + Cardinality(Bearing(B.redo))

\* Every round the loop of RestrictBufferSize() makes from buffers B and
\* counter capacity removes a buffer-bearing record and leaves the counter
\* equal to the payload bytes held.
RECURSIVE RoundsProgress(_, _, _)
RoundsProgress(B, capacity, limit) ==
    IF capacity <= limit THEN TRUE
    ELSE \A round \in {RestrictRound(B, capacity, limit)} :
            /\ BearingCount(round.B) < BearingCount(B)
            /\ round.capacity = PayloadBytes(round.B)
            /\ RoundsProgress(round.B, round.capacity, limit)

\* The number of rounds the loop makes, given that every round makes progress.
RECURSIVE RoundsMade(_, _, _)
RoundsMade(B, capacity, limit) ==
    IF capacity <= limit THEN 0
    ELSE LET round == RestrictRound(B, capacity, limit)
         IN 1 + RoundsMade(round.B, round.capacity, limit)

\* The undo and redo buffers of the state, as RestrictBufferSize() finds them.
SmpStacks ==
    [undo |-> SmpUndoBuffer, redo |-> SmpRedoBuffer, freed |-> <<>>, installed |-> <<>>]

\* C21: budget eviction terminates and reaches the budget.  From the sample
\* undo and redo stacks of every reachable state and under every budget from 0
\* on, the counter RestrictBufferSize() starts from is the sum of the payload
\* bytes of both directions, every round of its loop removes at least one
\* buffer-bearing record and leaves the counter equal to that sum (so the loop
\* ends), and the stacks it returns hold at most the budget.
C21_EvictionReachesBudget ==
    engine = "smp" =>
        \A limit \in 0..PayloadBytes(SmpStacks) :
            /\ GetBufferCapacity(SmpUndoBuffer) + GetBufferCapacity(SmpRedoBuffer)
                  = PayloadBytes(SmpStacks)
            /\ RoundsProgress(SmpStacks, PayloadBytes(SmpStacks), limit)
            /\ PayloadBytes(RestrictBufferSize(SmpStacks, limit)) <= limit

\* Slot 1 holds two buffer-bearing undo records and the redo buffer holds one:
\* under budget 0 the loop takes two rounds, the first of which removes
\* records of both directions.
C21_Witness ==
    /\ engine = "smp"
    /\ Cardinality(Bearing(<<StackOf(SmpUndoBuffer, 1)>>)) = 2
    /\ Bearing(SmpRedoBuffer) # {}
    /\ RoundsMade(SmpStacks, PayloadBytes(SmpStacks), 0) = 2
    /\ RestrictRound(SmpStacks, PayloadBytes(SmpStacks), 0).capacity > 0
    /\ BearingCount(RestrictBufferSize(SmpStacks, 0)) = 0

\* The record a sample Undo or Redo step takes from its source stack.
SmpRecordTaken ==
    LET from == IF last'.op = "Undo" THEN SmpUndoBuffer ELSE SmpRedoBuffer
    IN from[last'.id][Len(from[last'.id])]

\* C22: one-directional keep-on-disk flag.  A sample whose keep-on-disk flag is
\* clear when Undo or Redo is called has it clear when the call returns,
\* whatever the header saved in the record says, so no sequence of Undo and
\* Redo calls sets the flag; and after an Undo or Redo that returned true on a
\* record of a kind other than none the sample is marked modified.
C22_KeepOnDiskOneWay ==
    [][(engine = "smp" /\ last'.op \in {"Undo", "Redo"} /\ last'.why # "crash")
        => /\ \A smp \in SmpIds :
                ~SmpSamples[smp].keepOnDisk => ~SmpSamples'[smp].keepOnDisk
           /\ (last'.ok /\ SmpRecordTaken.changeType # "none")
                => SmpSamples'[last'.id].modified]_vars

\* A record of kind none taken while the sample was kept on disk and not
\* modified was undone after the editor had cleared the one flag and set the
\* other (the mirror record shows the sample as Undo found it): the sample
\* has the saved header again, but is still not kept on disk.
C22_Witness ==
    /\ engine = "smp"
    /\ scope.admin = "flags"
    /\ scope.kind = "none"
    /\ edits = 1
    /\ last.op = "Undo"
    /\ last.ok
    /\ ~SmpSamples[1].keepOnDisk
    /\ ~SmpSamples[1].modified
    /\ StackOf(SmpRedoBuffer, 1) # <<>>
    /\ ~SmpRedoBuffer[1][Len(SmpRedoBuffer[1])].OldSample.keepOnDisk
    /\ SmpRedoBuffer[1][Len(SmpRedoBuffer[1])].OldSample.modified

\* C23: pattern Undo() and Redo() return no pattern exactly when the source
\* stack was empty at the time of the call: a call that found a record there
\* returns the index of a pattern it restored, also when it follows a linked
\* chain down to the bottom of the stack.
C23_NoneOnlyWhenEmpty ==
    [][(engine = "pat" /\ last'.op \in {"Undo", "Redo"} /\ last'.why # "crash")
        => LET from == IF last'.op = "Undo" THEN PatUndoBuffer ELSE PatRedoBuffer
           IN (last'.id = PATTERNINDEX_INVALID) <=> (from = <<>>)]_vars

\* The stack from lost its top record and the stack to gained exactly one
\* record on top.
MovesOneRecord(from, fromAfter, to, toAfter) ==
    /\ from # <<>>
    /\ fromAfter = PopBack(from)
    /\ Len(toAfter) = Len(to) + 1
    /\ SubSeq(toAfter, 1, Len(to)) = to

\* C24: every successful undo is redoable.  When a sample or instrument
\* Undo returns true, the undo stack of that entity is one record shorter
\* and its redo stack has gained exactly one record on top, and the same for
\* Redo with the stacks exchanged: no call returns true with the mirror
\* capture skipped.
C24_SuccessfulUndoRedoable ==
    [][(/\ engine \in {"smp", "ins"}
        /\ last'.op \in {"Undo", "Redo"}
        /\ last'.ok)
       => LET id == last'.id
              undo == IF engine = "smp" THEN StackOf(SmpUndoBuffer, id)
                      ELSE StackOf(InsUndoBuffer, id)
              redo == IF engine = "smp" THEN StackOf(SmpRedoBuffer, id)
                      ELSE StackOf(InsRedoBuffer, id)
              undoAfter == IF engine = "smp" THEN StackOf(SmpUndoBuffer', id)
                           ELSE StackOf(InsUndoBuffer', id)
              redoAfter == IF engine = "smp" THEN StackOf(SmpRedoBuffer', id)
                           ELSE StackOf(InsRedoBuffer', id)
          IN IF last'.op = "Undo"
             THEN MovesOneRecord(undo, undoAfter, redo, redoAfter)
             ELSE MovesOneRecord(redo, redoAfter, undo, undoAfter)]_vars

====
